---- MODULE Spec2Model ----
(***************************************************************************)
(* NimbusDFIR operator scripts: the interactive selection, confirmation,   *)
(* execution and reporting workflows of the AWS and Azure scripts.         *)
(*                                                                         *)
(* A string is a sequence of one-character strings, so that strip(),       *)
(* lower(), isdigit() and int() are computed and not assumed.  Every       *)
(* input() of a handler is a step boundary; a provider response is drawn   *)
(* with \E at the call that reads it.                                      *)
(***************************************************************************)
EXTENDS Integers, Sequences, FiniteSets, TLC

\* ------------------------------------------------------------------ bounds
\* Largest number of candidates a provider listing returns.
MaxN == 3

\* Most EBS volumes attached to an instance.
MaxVolumes == 2

\* Last second of the wall clock.
MaxClock == 1

\* Most invocations in a sequence of runs.
MaxRuns == 2

\* Most file arguments of an upload.
MaxFiles == 2

\* ----------------------------------------------------- Python text helpers
Digits == <<"0", "1", "2", "3", "4", "5", "6", "7", "8", "9">>

UpperLetters == <<"A", "B", "C", "D", "E", "F", "G", "H", "I", "J", "K", "L", "M",
                  "N", "O", "P", "Q", "R", "S", "T", "U", "V", "W", "X", "Y", "Z">>

LowerLetters == <<"a", "b", "c", "d", "e", "f", "g", "h", "i", "j", "k", "l", "m",
                  "n", "o", "p", "q", "r", "s", "t", "u", "v", "w", "x", "y", "z">>

\* Python's None; no typed text equals it (its one element is not a character).
None == <<"<None>">>

\* Python truthiness of a str-or-None value: `not x`.
Falsy(x) == x = None \/ x = <<>>

IsDigitChar(c) == \E i \in 1..10 : Digits[i] = c

DigitVal(c) == CHOOSE i \in 0..9 : Digits[i + 1] = c

IsSpace(c) == c = " "

LowerChar(c) ==
    IF \E i \in 1..26 : UpperLetters[i] = c
    THEN LowerLetters[CHOOSE i \in 1..26 : UpperLetters[i] = c]
    ELSE c

\* str.lower()
lower(s) == [i \in 1..Len(s) |-> LowerChar(s[i])]

RECURSIVE lstrip(_)
lstrip(s) == IF s # <<>> /\ IsSpace(s[1]) THEN lstrip(Tail(s)) ELSE s

RECURSIVE rstrip(_)
rstrip(s) ==
    IF s # <<>> /\ IsSpace(s[Len(s)]) THEN rstrip(SubSeq(s, 1, Len(s) - 1)) ELSE s

\* str.strip()
strip(s) == rstrip(lstrip(s))

\* str.isdigit() (ASCII input): non-empty and every character a digit.
isdigit(s) == Len(s) > 0 /\ \A i \in 1..Len(s) : IsDigitChar(s[i])

RECURSIVE DecVal(_)
DecVal(s) ==
    IF s = <<>> THEN 0
    ELSE 10 * DecVal(SubSeq(s, 1, Len(s) - 1)) + DigitVal(s[Len(s)])

\* int(s): surrounding whitespace is ignored, one leading sign is accepted;
\* anything else raises ValueError (ok = FALSE).
int(s) ==
    LET t    == strip(s)
        sgn  == t # <<>> /\ t[1] \in {"-", "+"}
        body == IF sgn THEN Tail(t) ELSE t
    IN  IF isdigit(body)
        THEN [ok |-> TRUE, val |-> IF sgn /\ t[1] = "-" THEN 0 - DecVal(body) ELSE DecVal(body)]
        ELSE [ok |-> FALSE, val |-> 0]

\* list[i] of Python: a negative index counts from the end; outside
\* -len..len-1 it raises IndexError (ok = FALSE).
PyIndex(seq, i) ==
    IF i >= 0 /\ i < Len(seq) THEN [ok |-> TRUE, val |-> seq[i + 1]]
    ELSE IF i < 0 /\ i >= 0 - Len(seq) THEN [ok |-> TRUE, val |-> seq[Len(seq) + i + 1]]
    ELSE [ok |-> FALSE, val |-> None]

\* str(n) for 0 <= n <= 99.
Str(n) ==
    IF n < 10 THEN <<Digits[n + 1]>>
    ELSE <<Digits[(n \div 10) + 1], Digits[(n % 10) + 1]>>

\* ------------------------------------------------------------ input sets
\* Resource ids (bucket, blob, account, instance names): one-letter names.
Ids == {<<LowerLetters[i]>> : i \in 1..MaxN}

\* The ids numbered S, in the provider's (name) order.
RECURSIVE ListingOf(_)
ListingOf(S) ==
    IF S = {} THEN <<>>
    ELSE LET m == CHOOSE i \in S : \A j \in S : i <= j
         IN  <<<<LowerLetters[m]>>>> \o ListingOf(S \ {m})

\* Provider listings: any set of at most MaxN resources.
Listings == {ListingOf(S) : S \in SUBSET (1..MaxN)}

\* What a user may type at a numbered-selection prompt.
SelectionInputs ==
    {Str(n) : n \in 0..(MaxN + 1)}
      \cup {<<"-">> \o Str(1), <<" ">> \o Str(1), <<>>,
            <<"q">>, <<"Q">>, <<"c", "a", "n", "c", "e", "l">>, <<"a">>, <<"z">>}

\* What a user may type at a confirmation prompt.
ConfirmInputs ==
    {<<>>, <<"y">>, <<"Y">>, <<"n">>, <<" ", "y">>,
     <<"y", "e", "s">>, <<"Y", "E", "S">>, <<"Y", "e", "s">>, <<"y", "e", "s", " ">>,
     <<"n", "o">>, <<"y", "e">>,
     <<"D", "E", "L", "E", "T", "E">>, <<"d", "e", "l", "e", "t", "e">>,
     <<"D", "e", "l", "e", "t", "e">>, <<"D", "E", "L", "E", "T", "E", " ">>}

\* ---------------------------------------------------------------- state
VARIABLES
    script,    \* the handler this invocation runs, "none" between invocations
    pc,        \* position in the handler: the input() it is blocked on, or "done"
    locals,    \* the handler's local variables
    shown,     \* prompt name -> the numbered list rendered above that prompt
    term,      \* what was printed and which prompts were shown, in order
    typed,     \* prompt name -> the raw line the user typed at it
    calls,     \* mutating / downloading provider calls issued, in order
    outcome,   \* "running", "returned", "exit0", "exit1" or "crash"
    qsg,       \* provider: the security group named ec2-quarantine-sg
    inst_sgs,  \* provider: instance id -> its security group ids
    disk,      \* local disk: path -> content
    written,   \* every file write so far, in order: [path, content, at, run]
    now,       \* wall clock, in seconds
    runs       \* invocations that ended and were followed by another

run == <<script, pc, locals, shown, term, typed, calls, outcome>>

world == <<qsg, inst_sgs, disk, written, now, runs>>

vars == <<script, pc, locals, shown, term, typed, calls, outcome,
          qsg, inst_sgs, disk, written, now, runs>>

NoTyped == [p \in {} |-> <<>>]

NoShown == [p \in {} |-> <<>>]

NoLocals == [x \in {} |-> None]

NoFiles == [p \in {} |-> <<>>]

Idle ==
    /\ script = "none"
    /\ pc = "done"
    /\ locals = NoLocals
    /\ shown = NoShown
    /\ term = <<>>
    /\ typed = NoTyped
    /\ calls = <<>>
    /\ outcome = "returned"

Prompted(p) == \E i \in 1..Len(term) : term[i] = p

Printed(m) == \E i \in 1..Len(term) : term[i] = m

Called(op) == \E i \in 1..Len(calls) : calls[i].op = op

\* A provider call: the operation, its resource and whether it succeeded.
Call(op, arg, ok) == [op |-> op, arg |-> arg, ok |-> ok]

\* The list rendered above prompt p in this invocation (empty: none was).
Displayed(p) == IF p \in DOMAIN shown THEN shown[p] ELSE <<>>

\* The line typed at prompt p in this invocation (None: not answered).
Typed(p) == IF p \in DOMAIN typed THEN typed[p] ELSE None

\* input(p) returned `line`.
Read(p, line) == typed' = (p :> line) @@ typed

\* The handler ends: nothing more is read.
Finish(how) ==
    /\ pc' = "done"
    /\ outcome' = how

\* print(m), then the handler ends.
Say(m, how) ==
    /\ term' = Append(term, m)
    /\ Finish(how)

\* The handler renders prompt p and blocks on its input().
Ask(p) ==
    /\ term' = Append(term, p)
    /\ pc' = p
    /\ outcome' = "running"

\* A process starts running handler h.
Begin(h) ==
    /\ script = "none"
    /\ script' = h

\* ------------------------------------- AWS/setup/s3_bucket_manager.py
\* delete_bucket, up to the selection prompt.
setup_delete_bucket_list ==
    /\ Begin("setup_delete_bucket")
    /\ \E err \in BOOLEAN, buckets \in Listings :
         IF err
         THEN /\ Say("Error deleting bucket", "returned")
              /\ UNCHANGED <<locals, shown>>
         ELSE IF buckets = <<>>
         THEN /\ Say("No buckets available to delete", "returned")
              /\ UNCHANGED <<locals, shown>>
         ELSE /\ shown' = ("?choice" :> buckets) @@ shown
              /\ locals' = [buckets |-> buckets, bucket_name |-> None]
              /\ Ask("?choice")
    /\ UNCHANGED <<typed, calls, world>>

\* delete_bucket, from the selection to the confirmation prompt.
setup_delete_bucket_choice ==
    /\ script = "setup_delete_bucket"
    /\ pc = "?choice"
    /\ \E line \in SelectionInputs :
         LET choice == strip(line)
             n      == int(choice)
             got    == PyIndex(locals.buckets, n.val - 1)
         IN  /\ Read("?choice", line)
             /\ IF lower(choice) = <<"c", "a", "n", "c", "e", "l">>
                THEN /\ Say("Operation cancelled", "returned")
                     /\ UNCHANGED locals
                ELSE IF ~n.ok \/ ~got.ok
                THEN /\ Say("Invalid selection", "returned")
                     /\ UNCHANGED locals
                ELSE /\ locals' = [locals EXCEPT !.bucket_name = got.val]
                     /\ Ask("?confirm")
    /\ UNCHANGED <<script, shown, calls, world>>

\* delete_bucket, from the confirmation to the end.
setup_delete_bucket_confirm ==
    /\ script = "setup_delete_bucket"
    /\ pc = "?confirm"
    /\ \E line \in ConfirmInputs, ok \in BOOLEAN :
         /\ Read("?confirm", line)
         /\ IF lower(strip(line)) # <<"y">>
            THEN /\ Say("Operation cancelled", "returned")
                 /\ calls' = calls
            ELSE /\ calls' = Append(calls, Call("delete_bucket", locals.bucket_name, ok))
                 /\ Say(IF ok THEN "deleted successfully" ELSE "Error deleting bucket",
                        "returned")
    /\ UNCHANGED <<script, locals, shown, world>>

\* --------------------------------------- Azure/blob_storage_manager.py
\* download_from_blob_container, up to its first input().
download_from_blob_container_list ==
    /\ Begin("download_from_blob_container")
    /\ \E found \in BOOLEAN, blobs \in Listings, blob \in {None, <<"a">>} :
         IF ~found
         THEN /\ Say("Blob Container not found", "returned")
              /\ UNCHANGED <<locals, shown>>
         ELSE IF blobs = <<>>
         THEN /\ Say("No blobs found", "returned")
              /\ UNCHANGED <<locals, shown>>
         ELSE IF Falsy(blob)
         THEN /\ shown' = ("?sel" :> blobs) @@ shown
              /\ locals' = [blobs |-> blobs, blob |-> blob]
              /\ Ask("?sel")
         ELSE /\ locals' = [blobs |-> blobs, blob |-> blob]
              /\ Ask("?save_path")
              /\ UNCHANGED shown
    /\ UNCHANGED <<typed, calls, world>>

\* The ENTER = all branch: one save-path prompt and one download per blob.
RECURSIVE DownloadAll(_, _)
DownloadAll(blobs, failed) ==
    IF blobs = <<>> THEN [term |-> <<>>, calls |-> <<>>]
    ELSE LET rest == DownloadAll(Tail(blobs), failed)
         IN  [term  |-> <<"?save_path",
                          IF Head(blobs) \in failed THEN "Download failed"
                                                    ELSE "Download complete">> \o rest.term,
              calls |-> <<Call("blob download", Head(blobs), Head(blobs) \notin failed)>>
                          \o rest.calls]

\* download_from_blob_container, from the blob choice on.
download_from_blob_container_sel ==
    /\ script = "download_from_blob_container"
    /\ pc = "?sel"
    /\ \E sel \in SelectionInputs, failed \in SUBSET Ids :
         LET n   == int(sel)
             got == PyIndex(locals.blobs, n.val - 1)
             all == DownloadAll(locals.blobs, failed)
         IN  /\ Read("?sel", sel)
             /\ IF sel = <<>>
                THEN /\ term' = term \o all.term
                     /\ calls' = calls \o all.calls
                     /\ Finish("returned")
                     /\ UNCHANGED locals
                ELSE IF ~n.ok \/ ~got.ok
                THEN /\ Say("Invalid selection", "returned")
                     /\ UNCHANGED <<locals, calls>>
                ELSE /\ locals' = [locals EXCEPT !.blob = got.val]
                     /\ Ask("?save_path")
                     /\ UNCHANGED calls
    /\ UNCHANGED <<script, shown, world>>

\* download_from_blob_container, the single download.
download_from_blob_container_save ==
    /\ script = "download_from_blob_container"
    /\ pc = "?save_path"
    /\ \E ok \in BOOLEAN :
         /\ calls' = Append(calls, Call("blob download", locals.blob, ok))
         /\ Say(IF ok THEN "Download complete" ELSE "Download failed", "returned")
    /\ UNCHANGED <<script, locals, shown, typed, world>>

\* ------------------------------------------------- AWS/s3_manager.py
\* select_bucket, after its input(): the bucket it returns and whether it
\* printed "Invalid selection".
select_bucket(buckets, line) ==
    LET selection == strip(line)
        index     == int(selection).val - 1
    IN  IF isdigit(selection)
        THEN IF 0 <= index /\ index < Len(buckets)
             THEN [ret |-> buckets[index + 1], invalid |-> FALSE]
             ELSE [ret |-> None, invalid |-> TRUE]
        ELSE [ret |-> selection, invalid |-> FALSE]

\* download_file from "# Set download path" on, with file_name settled.
download_file_path(file_name) ==
    IF Falsy(locals.download_path)
    THEN IF file_name = None
         THEN \* os.path.join(..., None) raises TypeError, which nothing catches
              Say("TypeError", "crash")
         ELSE Ask("?download_to")
    ELSE Ask("!download")

\* download_file from "# List files if not provided" on, with bucket_name set.
download_file_files(bucket_name, file_name, download_path) ==
    LET base == [bucket_name |-> bucket_name, file_name |-> file_name,
                 download_path |-> download_path, files |-> <<>>]
    IN  IF ~Falsy(file_name)
        THEN /\ locals' = base
             /\ IF Falsy(download_path) THEN Ask("?download_to") ELSE Ask("!download")
             /\ UNCHANGED shown
        ELSE \E err \in BOOLEAN, files \in Listings :
               IF err
               THEN /\ Say("Error", "returned")
                    /\ locals' = base
                    /\ UNCHANGED shown
               ELSE IF files = <<>>
               THEN /\ Say("No files found in bucket", "returned")
                    /\ locals' = base
                    /\ UNCHANGED shown
               ELSE /\ shown' = ("?select_file" :> files) @@ shown
                    /\ locals' = [base EXCEPT !.files = files]
                    /\ Ask("?select_file")

\* Arguments of `s3_manager.py download`: [bucket [file [path]]].
DownloadArgs ==
    {<<>>, <<<<"a">>>>, <<<<"a">>, <<"b">>>>, <<<<"a">>, <<"b">>, <<"p">>>>}

\* main and download_file, up to the first input().
download_file_main ==
    /\ Begin("download_file")
    /\ \E creds \in BOOLEAN, args \in DownloadArgs :
         LET bucket_name   == IF Len(args) > 0 THEN args[1] ELSE None
             file_name     == IF Len(args) > 1 THEN args[2] ELSE None
             download_path == IF Len(args) > 2 THEN args[3] ELSE None
         IN  IF ~creds
             THEN /\ Say("Error: AWS credentials", "exit1")
                  /\ UNCHANGED <<locals, shown>>
             ELSE IF Falsy(bucket_name)
             THEN \E err \in BOOLEAN, buckets \in Listings :
                    IF err
                    THEN /\ Say("Error", "returned")
                         /\ UNCHANGED <<locals, shown>>
                    ELSE IF buckets = <<>>
                    THEN /\ Say("No buckets found", "returned")
                         /\ UNCHANGED <<locals, shown>>
                    ELSE /\ shown' = ("?select_bucket" :> buckets) @@ shown
                         /\ locals' = [buckets |-> buckets, bucket_name |-> None,
                                       file_name |-> file_name,
                                       download_path |-> download_path]
                         /\ Ask("?select_bucket")
             ELSE download_file_files(bucket_name, file_name, download_path)
    /\ UNCHANGED <<typed, calls, world>>

\* select_bucket's input(), then download_file continues.
download_file_bucket ==
    /\ script = "download_file"
    /\ pc = "?select_bucket"
    /\ \E line \in SelectionInputs :
         LET r == select_bucket(locals.buckets, line)
         IN  /\ Read("?select_bucket", line)
             /\ IF r.invalid
                THEN /\ Say("Invalid selection", "returned")
                     /\ UNCHANGED <<locals, shown>>
                ELSE IF Falsy(r.ret)
                THEN /\ Finish("returned")
                     /\ locals' = [locals EXCEPT !.bucket_name = r.ret]
                     /\ UNCHANGED <<shown, term>>
                ELSE download_file_files(r.ret, locals.file_name, locals.download_path)
    /\ UNCHANGED <<script, calls, world>>

\* The file selection, then the download path.
download_file_file ==
    /\ script = "download_file"
    /\ pc = "?select_file"
    /\ \E line \in SelectionInputs :
         LET selection == strip(line)
             index     == int(selection).val - 1
             file_name == IF isdigit(selection)
                          THEN IF 0 <= index /\ index < Len(locals.files)
                               THEN locals.files[index + 1]
                               ELSE locals.file_name
                          ELSE selection
         IN  /\ Read("?select_file", line)
             /\ locals' = [locals EXCEPT !.file_name = file_name]
             /\ download_file_path(file_name)
    /\ UNCHANGED <<script, shown, calls, world>>

\* "Download to ~/Downloads/...? (Y/n)"; on n a path is read as well.
download_file_to ==
    /\ script = "download_file"
    /\ pc = "?download_to"
    /\ \E line \in {<<>>, <<"N", " ">>} :
         /\ Read("?download_to", line)
         /\ IF lower(strip(line)) = <<"n">>
            THEN Ask("?download_path")
            ELSE Ask("!download")
    /\ UNCHANGED <<script, locals, shown, calls, world>>

\* os.makedirs and s3.download_file.
download_file_get ==
    /\ script = "download_file"
    /\ pc \in {"?download_path", "!download"}
    /\ \E res \in {"ok", "ClientError", "OSError"} :
         IF res = "OSError"
         THEN /\ Say("OSError", "crash")
              /\ UNCHANGED calls
         ELSE /\ calls' = Append(calls, Call("download_file", locals.file_name, res = "ok"))
              /\ Say(IF res = "ok" THEN "File downloaded successfully"
                                   ELSE "Failed to download file", "returned")
    /\ UNCHANGED <<script, locals, shown, typed, world>>

\* ------------------------------------ Azure/storage_account_manager.py
\* main, list_storage_accounts and delete_storage_account up to its
\* first input().
delete_storage_account_list ==
    /\ Begin("delete_storage_account")
    /\ \E name \in {None, <<"a">>}, out \in Listings :
         IF Falsy(name)
         THEN /\ IF out = <<>>
                 THEN /\ term' = <<"No Storage Accounts found", "?choice">>
                      /\ UNCHANGED shown
                 ELSE /\ term' = <<"Storage Accounts found", "?choice">>
                      /\ shown' = ("?choice" :> out) @@ shown
              /\ pc' = "?choice"
              /\ outcome' = "running"
              /\ locals' = [SA_NAME |-> None]
         ELSE /\ locals' = [SA_NAME |-> name]
              /\ Ask("?confirm")
              /\ UNCHANGED shown
    /\ UNCHANGED <<typed, calls, world>>

\* The account choice: the listing is fetched again and indexed.
delete_storage_account_choice ==
    /\ script = "delete_storage_account"
    /\ pc = "?choice"
    /\ \E choice \in SelectionInputs, lines \in Listings :
         LET n   == int(choice)
             idx == n.val - 1
         IN  /\ Read("?choice", choice)
             /\ IF ~n.ok
                THEN /\ Say("ValueError", "crash")
                     /\ UNCHANGED locals
                ELSE IF idx < 0 \/ idx >= Len(lines)
                THEN /\ Say("Invalid selection", "returned")
                     /\ UNCHANGED locals
                ELSE /\ locals' = [locals EXCEPT !.SA_NAME = lines[idx + 1]]
                     /\ Ask("?confirm")
    /\ UNCHANGED <<script, shown, calls, world>>

\* The confirmation and the delete.
delete_storage_account_confirm ==
    /\ script = "delete_storage_account"
    /\ pc = "?confirm"
    /\ \E confirm \in ConfirmInputs, ok \in BOOLEAN :
         /\ Read("?confirm", confirm)
         /\ IF lower(confirm) # <<"y">>
            THEN /\ Say("Operation cancelled", "returned")
                 /\ UNCHANGED calls
            ELSE /\ calls' = Append(calls, Call("storage account delete", locals.SA_NAME, ok))
                 /\ Say(IF ok THEN "deleted successfully" ELSE "Error deleting", "returned")
    /\ UNCHANGED <<script, locals, shown, world>>

\* ------------------------------------------------- AWS/ec2_manager.py
\* What a user may type where a resource id is asked for.
IdInputs == {<<>>, <<" ">>, <<"a">>, <<" ", "b">>}

\* A gate that goes on unless the answer is `no`.
remove_instance_unless_no(line) == lower(strip(line)) # <<"n", "o">>

\* remove_instance: `confirm = input(...).strip().lower()`, `confirm != "yes"`.
remove_instance_confirmed(line) == lower(strip(line)) = <<"y", "e", "s">>

\* A remove_instance that asks for the confirmation whatever
\* describe_instances answered.
remove_instance_unverified(instance_id) ==
    \E found \in BOOLEAN :
      /\ locals' = [instance_id |-> instance_id, verified |-> found]
      /\ Ask("?confirm")

\* remove_instance from "# Verify instance exists" on.
remove_instance_verify(instance_id) ==
    \E found \in BOOLEAN :
      /\ locals' = [instance_id |-> instance_id, verified |-> found]
      /\ IF found THEN Ask("?confirm")
                  ELSE Say("Error: Instance not found", "returned")

\* main and remove_instance, up to the first input().
remove_instance_main ==
    /\ Begin("remove_instance")
    /\ \E creds \in BOOLEAN, instance_id \in {None, <<"a">>} :
         IF ~creds
         THEN /\ Say("Error: AWS credentials", "exit1")
              /\ UNCHANGED locals
         ELSE IF Falsy(instance_id)
         THEN /\ locals' = [instance_id |-> instance_id, verified |-> FALSE]
              /\ Ask("?instance_id")
         ELSE remove_instance_verify(instance_id)
    /\ UNCHANGED <<shown, typed, calls, world>>

\* "Enter instance ID to terminate".
remove_instance_id ==
    /\ script = "remove_instance"
    /\ pc = "?instance_id"
    /\ \E line \in IdInputs :
         /\ Read("?instance_id", line)
         /\ IF Falsy(strip(line))
            THEN /\ Say("Error: Instance ID is required", "returned")
                 /\ locals' = [locals EXCEPT !.instance_id = strip(line)]
            ELSE remove_instance_verify(strip(line))
    /\ UNCHANGED <<script, shown, calls, world>>

\* "Are you sure? (yes/no)" and terminate_instances.
remove_instance_confirm ==
    /\ script = "remove_instance"
    /\ pc = "?confirm"
    /\ \E line \in ConfirmInputs, ok \in BOOLEAN :
         /\ Read("?confirm", line)
         /\ IF ~remove_instance_confirmed(line)
            THEN /\ Say("Operation cancelled", "returned")
                 /\ UNCHANGED calls
            ELSE /\ calls' = Append(calls, Call("terminate_instances", locals.instance_id, ok))
                 /\ Say(IF ok THEN "Instance is being terminated"
                              ELSE "Error terminating instance", "returned")
    /\ UNCHANGED <<script, locals, shown, world>>

\* ------------------------------------- AWS/s3_manager.py delete_bucket
\* delete_bucket: `confirm = input(...).strip().lower()`, `confirm != "yes"`.
delete_bucket_confirmed(line) == lower(strip(line)) = <<"y", "e", "s">>

\* main and delete_bucket, up to the first input().
delete_bucket_main ==
    /\ Begin("delete_bucket")
    /\ \E creds \in BOOLEAN, bucket_name \in {None, <<"a">>} :
         IF ~creds
         THEN /\ Say("Error: AWS credentials", "exit1")
              /\ UNCHANGED locals
         ELSE /\ locals' = [bucket_name |-> bucket_name]
              /\ IF Falsy(bucket_name) THEN Ask("?bucket_name") ELSE Ask("?confirm")
    /\ UNCHANGED <<shown, typed, calls, world>>

\* "Enter bucket name to delete".
delete_bucket_name ==
    /\ script = "delete_bucket"
    /\ pc = "?bucket_name"
    /\ \E line \in IdInputs :
         /\ Read("?bucket_name", line)
         /\ locals' = [locals EXCEPT !.bucket_name = strip(line)]
         /\ IF Falsy(strip(line))
            THEN Say("Error: Bucket name is required", "returned")
            ELSE Ask("?confirm")
    /\ UNCHANGED <<script, shown, calls, world>>

\* The provider calls of delete_bucket's try block: the first `done` of the
\* three are issued, and the last of those raises ClientError unless ok.
delete_bucket_calls(bucket_name, done, ok) ==
    LET ops == <<"objects.delete", "object_versions.delete", "delete_bucket">>
    IN  [i \in 1..done |-> Call(ops[i], bucket_name, i < done \/ (done = 3 /\ ok))]

\* "Are you sure? (yes/no)", then the bucket is emptied and deleted.
delete_bucket_confirm ==
    /\ script = "delete_bucket"
    /\ pc = "?confirm"
    /\ \E line \in ConfirmInputs, done \in 1..3, ok \in BOOLEAN :
         /\ Read("?confirm", line)
         /\ IF ~delete_bucket_confirmed(line)
            THEN /\ Say("Operation cancelled", "returned")
                 /\ UNCHANGED calls
            ELSE /\ calls' = calls \o delete_bucket_calls(locals.bucket_name, done, ok)
                 /\ Say(IF done = 3 /\ ok THEN "Bucket deleted successfully"
                                          ELSE "Failed to delete bucket", "returned")
    /\ UNCHANGED <<script, locals, shown, world>>

\* ---------------------------------------------- Azure/vm_manager.py
\* delete_vm: `confirm = input(...).strip().lower()`, `confirm != "y"`.
delete_vm_confirmed(line) == lower(strip(line)) = <<"y">>

\* main and delete_vm, up to the first input().
delete_vm_main ==
    /\ Begin("delete_vm")
    /\ \E prereq \in BOOLEAN, vm_name \in {None, <<"a">>} :
         IF ~prereq
         THEN /\ Say("ERROR: Not logged in to Azure", "exit1")
              /\ UNCHANGED <<locals, shown>>
         ELSE IF Falsy(vm_name)
         THEN \E res \in {"ok", "error", "bad json"}, vms \in Listings :
                IF res = "error"
                THEN /\ Say("Error listing VMs", "returned")
                     /\ UNCHANGED <<locals, shown>>
                ELSE IF res = "bad json"
                THEN /\ Say("Error parsing VM list", "returned")
                     /\ UNCHANGED <<locals, shown>>
                ELSE IF vms = <<>>
                THEN /\ Say("No VMs found in current subscription", "exit0")
                     /\ UNCHANGED <<locals, shown>>
                ELSE /\ shown' = ("?select_vm" :> vms) @@ shown
                     /\ locals' = [vms |-> vms, vm_name |-> None]
                     /\ Ask("?select_vm")
         ELSE \E res \in {"ok", "error", "bad json", "not found"} :
                IF res = "ok"
                THEN /\ locals' = [vms |-> <<>>, vm_name |-> vm_name]
                     /\ Ask("?confirm")
                     /\ UNCHANGED shown
                ELSE /\ Say("Error finding VM", "exit1")
                     /\ UNCHANGED <<locals, shown>>
    /\ UNCHANGED <<typed, calls, world>>

\* "Select VM to delete [1-N] or 0 to cancel".
delete_vm_select ==
    /\ script = "delete_vm"
    /\ pc = "?select_vm"
    /\ \E line \in SelectionInputs :
         LET selection      == strip(line)
             n              == int(selection)
             selected_index == n.val - 1
         IN  /\ Read("?select_vm", line)
             /\ IF selection = <<"0">> \/ Falsy(selection)
                THEN /\ Say("Operation cancelled", "exit0")
                     /\ UNCHANGED locals
                ELSE IF ~n.ok \/ selected_index < 0 \/ selected_index >= Len(locals.vms)
                THEN /\ Say("Invalid selection", "exit1")
                     /\ UNCHANGED locals
                ELSE /\ locals' = [locals EXCEPT !.vm_name = locals.vms[selected_index + 1]]
                     /\ Ask("?confirm")
    /\ UNCHANGED <<script, shown, calls, world>>

\* "Are you sure you want to delete VM ...? (y/N)" and `az vm delete`.
delete_vm_confirm ==
    /\ script = "delete_vm"
    /\ pc = "?confirm"
    /\ \E line \in ConfirmInputs, ok \in BOOLEAN :
         /\ Read("?confirm", line)
         /\ IF ~delete_vm_confirmed(line)
            THEN /\ Say("Deletion cancelled", "exit0")
                 /\ UNCHANGED calls
            ELSE /\ calls' = Append(calls, Call("vm delete", locals.vm_name, ok))
                 /\ IF ok
                    THEN /\ term' = term \o <<"VM deleted successfully", "?delete_resources">>
                         /\ pc' = "?delete_resources"
                         /\ outcome' = "running"
                    ELSE Say("Failed to delete VM", "exit1")
    /\ UNCHANGED <<script, locals, shown, world>>

\* sub occurs in s as a contiguous run (JMESPath contains(name, sub)).
Contains(s, sub) ==
    \E i \in 0..(Len(s) - Len(sub)) : SubSeq(s, i + 1, i + Len(sub)) = sub

\* Names of VMs whose resources may lie in the resource group, in the
\* order a listing returns them.
OwnerNames == <<<<"a">>, <<"a", "b">>, <<"b">>, <<"c">>>>

\* The resource kinds cleaned up, in the order delete_vm handles them.
Kinds == <<"nic", "public-ip", "nsg", "disk", "vnet">>

\* The delete commands of one kind: one per listed name containing
\* vm_name; those of the names in `failed` return a non-zero code.
RECURSIVE CleanupKind(_, _, _, _)
CleanupKind(kind, names, vm_name, failed) ==
    IF names = <<>> THEN <<>>
    ELSE (IF Contains(Head(names), vm_name)
          THEN <<Call(kind \o " delete", [owner |-> Head(names), kind |-> kind],
                      Head(names) \notin failed)>>
          ELSE <<>>) \o CleanupKind(kind, Tail(names), vm_name, failed)

\* The names of OwnerNames that are present, in listing order.
RECURSIVE Present(_, _)
Present(names, here) ==
    IF names = <<>> THEN <<>>
    ELSE (IF Head(names) \in here THEN <<Head(names)>> ELSE <<>>)
           \o Present(Tail(names), here)

\* "Delete associated NICs and disks? (y/n)" and the five clean-up loops.
delete_vm_cleanup ==
    /\ script = "delete_vm"
    /\ pc = "?delete_resources"
    /\ \E line \in {<<>>, <<"y">>, <<"Y", " ">>, <<"n">>},
          here \in SUBSET {OwnerNames[i] : i \in 1..Len(OwnerNames)},
          failed \in SUBSET {OwnerNames[i] : i \in 1..Len(OwnerNames)} :
         LET owners == Present(OwnerNames, here)
         IN
         /\ failed \subseteq {o \in here : Contains(o, locals.vm_name)}
         /\ Read("?delete_resources", line)
         /\ IF lower(strip(line)) = <<"y">>
            THEN /\ calls' = calls
                       \o CleanupKind(Kinds[1], owners, locals.vm_name, failed)
                       \o CleanupKind(Kinds[2], owners, locals.vm_name, failed)
                       \o CleanupKind(Kinds[3], owners, locals.vm_name, failed)
                       \o CleanupKind(Kinds[4], owners, locals.vm_name, failed)
                       \o CleanupKind(Kinds[5], owners, locals.vm_name, failed)
                 /\ Say("All resources cleanup completed", "returned")
            ELSE /\ Finish("returned")
                 /\ UNCHANGED <<calls, term>>
    /\ UNCHANGED <<script, locals, shown, world>>

\* ------------------------------------- AWS/ec2_evidence_preservation.py
\* The id of the security group named ec2-quarantine-sg.
quarantine_sg_id == "sg-quarantine"

\* The security groups an instance has before any isolation.
OriginalSgs == <<"sg-web", "sg-db">>

\* The locals of the three workflows; fn is the function now executing.
EvLocals(fn) ==
    [fn |-> fn, instances |-> <<>>, instance_id |-> None, snapshot_id |-> None,
     current_sgs |-> <<>>, volumes |-> 0, snapshots |-> <<>>, reason |-> None,
     report |-> None]

\* open(path, 'w') followed by a successful write: the file now holds
\* content, whatever it held before.  The write is logged with the number
\* of provider calls this run had issued when it happened.
WriteFile(path, content, at) ==
    /\ disk' = (path :> content) @@ disk
    /\ written' = Append(written, [path |-> path, content |-> content,
                                   at |-> at, run |-> runs])

\* The `except Exception` clause that closes each workflow function.
Failed(fn) ==
    IF fn = "isolate_instance" THEN "Error during isolation process"
    ELSE IF fn = "create_snapshot_evidence" THEN "Error during snapshot creation"
    ELSE "Error during snapshot deletion"

\* get_instance_selection, up to its input(): the listing is rendered.
get_instance_selection_list(base) ==
    \E err \in BOOLEAN, instances \in Listings :
      IF err
      THEN /\ Say("Error retrieving instances", "returned")
           /\ locals' = base
           /\ UNCHANGED shown
      ELSE IF instances = <<>>
      THEN /\ Say("No EC2 instances available", "returned")
           /\ locals' = base
           /\ UNCHANGED shown
      ELSE /\ shown' = ("?select_instance" :> instances) @@ shown
           /\ locals' = [base EXCEPT !.instances = instances]
           /\ Ask("?select_instance")

\* get_instance_selection and the selection block of delete_snapshot, from
\* the input(): `q` cancels, int() picks a row of 1..len, all else is invalid.
get_instance_selection(instances, selection) ==
    LET n == int(selection)
    IN  IF lower(selection) = <<"q">>
        THEN [ret |-> None, msg |-> "Operation cancelled"]
        ELSE IF ~n.ok
        THEN [ret |-> None, msg |-> "Invalid selection. Please enter a valid number"]
        ELSE IF 1 <= n.val /\ n.val <= Len(instances)
        THEN [ret |-> instances[n.val], msg |-> ""]
        ELSE [ret |-> None, msg |-> "Invalid selection"]

\* isolate_instance: describe_instances(InstanceIds=[id]) and the prompt
\* "Proceed with isolation? (y/N)".
isolate_verify(instance_id, base) ==
    \E found \in BOOLEAN :
      /\ locals' = [base EXCEPT !.instance_id = instance_id,
                                !.current_sgs = IF found /\ instance_id \in Ids
                                                THEN inst_sgs[instance_id]
                                                ELSE <<>>]
      /\ IF found /\ instance_id \in Ids
         THEN Ask("?confirm")
         ELSE Say("Error: Instance not found", "returned")

\* isolate_instance, from its first statement: the quarantine group is
\* looked up, and created when the look-up says InvalidGroup.NotFound,
\* before any instance is selected.
isolate_instance(instance_id) ==
    \E sg \in {"found", "describe failed", "no vpc", "create failed",
               "created", "created, egress kept"} :
      /\ sg = "found" => qsg # "absent"
      /\ sg \notin {"found", "describe failed"} => qsg = "absent"
      /\ calls' = IF sg \in {"found", "describe failed", "no vpc"} THEN calls
                  ELSE IF sg = "create failed"
                  THEN Append(calls, Call("create_security_group", quarantine_sg_id, FALSE))
                  ELSE calls \o
                       <<Call("create_security_group", quarantine_sg_id, TRUE),
                         Call("revoke_security_group_egress", quarantine_sg_id,
                              sg = "created")>>
      /\ qsg' = IF sg = "created" THEN "closed"
                ELSE IF sg = "created, egress kept" THEN "open"
                ELSE qsg
      /\ IF sg \in {"describe failed", "create failed"}
         THEN /\ Say(Failed("isolate_instance"), "returned")
              /\ locals' = EvLocals("isolate_instance")
              /\ UNCHANGED shown
         ELSE IF sg = "no vpc"
         THEN /\ Say("Error: Could not find default VPC", "returned")
              /\ locals' = EvLocals("isolate_instance")
              /\ UNCHANGED shown
         ELSE IF Falsy(instance_id)
         THEN get_instance_selection_list(EvLocals("isolate_instance"))
         ELSE /\ isolate_verify(instance_id, EvLocals("isolate_instance"))
              /\ UNCHANGED shown

\* main: check_aws_credentials, then `isolate [instance-id]`.
main_isolate ==
    /\ Begin("isolate_instance")
    /\ \E creds \in BOOLEAN, instance_id \in {None, <<"a">>} :
         IF ~creds
         THEN /\ Say("Error: AWS credentials not configured or invalid", "exit1")
              /\ locals' = EvLocals("isolate_instance")
              /\ UNCHANGED <<shown, calls, qsg>>
         ELSE isolate_instance(instance_id)
    /\ UNCHANGED <<typed, inst_sgs, disk, written, now, runs>>

\* create_snapshot_evidence: describe_instances(InstanceIds=[id]), its
\* BlockDeviceMappings, and the prompt "Enter case/incident number".
snapshot_volumes(instance_id, base) ==
    \E found \in BOOLEAN, volumes \in 0..MaxVolumes :
      /\ locals' = [base EXCEPT !.fn = "create_snapshot_evidence",
                                !.instance_id = instance_id,
                                !.volumes = IF found THEN volumes ELSE 0]
      /\ IF ~found
         THEN Say("Error: Instance not found", "returned")
         ELSE IF volumes = 0
         THEN Say("No EBS volumes found for this instance", "returned")
         ELSE Ask("?case_number")

\* main: check_aws_credentials, then `snapshot [instance-id]`.
main_snapshot ==
    /\ Begin("create_snapshot_evidence")
    /\ \E creds \in BOOLEAN, instance_id \in {None, <<"a">>} :
         IF ~creds
         THEN /\ Say("Error: AWS credentials not configured or invalid", "exit1")
              /\ locals' = EvLocals("create_snapshot_evidence")
              /\ UNCHANGED shown
         ELSE IF Falsy(instance_id)
         THEN get_instance_selection_list(EvLocals("create_snapshot_evidence"))
         ELSE /\ snapshot_volumes(instance_id, EvLocals("create_snapshot_evidence"))
              /\ UNCHANGED shown
    /\ UNCHANGED <<typed, calls, world>>

\* "Select instance number to <action> (or 'q' to quit)".
select_instance ==
    /\ script \in {"isolate_instance", "create_snapshot_evidence"}
    /\ pc = "?select_instance"
    /\ \E selection \in SelectionInputs :
         LET r == get_instance_selection(locals.instances, selection)
         IN  /\ Read("?select_instance", selection)
             /\ IF Falsy(r.ret)
                THEN /\ Say(r.msg, "returned")
                     /\ UNCHANGED locals
                ELSE IF script = "isolate_instance"
                THEN isolate_verify(r.ret, locals)
                ELSE snapshot_volumes(r.ret, locals)
    /\ UNCHANGED <<script, shown, calls, world>>

\* isolate_instance: the directory of the backup file, which depends on
\* the operator's machine only.
temp_path == "tmp"

\* isolate_instance: `if confirm.lower() != 'y'`.
isolate_confirmed(confirm) == lower(confirm) = <<"y">>

\* new_evidence_report, up to its input(): the two timestamps are taken
\* from the clock and the report text is built.
new_evidence_report(subject, action, details, t) ==
    /\ now' = t
    /\ locals' = [locals EXCEPT !.report =
                    [subject |-> subject, action |-> action,
                     details |-> details, timestamp |-> t]]
    /\ Ask("?report_path")

\* "Proceed with isolation? (y/N)", the backup of the current groups, the
\* modify_instance_attribute call and the start of the report.
\* A backup that is written once the groups have been replaced.
backup_after_modify(issued) == Len(issued) + 1

\* isolate_instance: the provider calls issued when `json.dump(original_sgs,
\* f)` runs, which is before modify_instance_attribute.
backup_position(issued) == Len(issued)

isolate_confirm ==
    /\ script = "isolate_instance"
    /\ pc = "?confirm"
    /\ \E confirm \in ConfirmInputs,
          res \in {"ok", "backup failed", "modify failed"}, t \in now..MaxClock :
         LET instance_id == locals.instance_id
             original_sgs_file == <<temp_path, "original-sgs", instance_id>>
         IN
         /\ Read("?confirm", confirm)
         /\ IF ~isolate_confirmed(confirm)
            THEN /\ Say("Operation cancelled", "returned")
                 /\ UNCHANGED <<locals, calls, inst_sgs, disk, written, now>>
            ELSE IF res = "backup failed"
            THEN /\ Say(Failed("isolate_instance"), "returned")
                 /\ UNCHANGED <<locals, calls, inst_sgs, disk, written, now>>
            ELSE /\ calls' = Append(calls, Call("modify_instance_attribute",
                                                instance_id, res = "ok"))
                 /\ WriteFile(original_sgs_file, locals.current_sgs,
                              backup_position(calls))
                 /\ IF res = "modify failed"
                    THEN /\ Say(Failed("isolate_instance"), "returned")
                         /\ UNCHANGED <<locals, inst_sgs, now>>
                    ELSE /\ inst_sgs' = [inst_sgs EXCEPT
                                           ![instance_id] = <<quarantine_sg_id>>]
                         /\ new_evidence_report(instance_id, "NETWORK_ISOLATION",
                              [original_sgs |-> locals.current_sgs,
                               backup_file |-> original_sgs_file], t)
    /\ UNCHANGED <<script, shown, qsg, runs>>

\* new_evidence_report, from its input(): the directory is chosen and the
\* report is written with open(report_file, 'w'); then the caller goes on.
write_report ==
    /\ script \in {"isolate_instance", "create_snapshot_evidence", "delete_snapshot"}
    /\ pc = "?report_path"
    /\ \E custom_path \in {<<>>, <<"p">>}, save_path \in {"custom", "Downloads", "."},
          wrote \in BOOLEAN, ok \in BOOLEAN :
         LET report      == locals.report
             report_file == <<save_path, "evidence-report", report.subject,
                              report.timestamp>>
             fn          == locals.fn
             \* os.makedirs(save_path) raised
             said        == IF save_path = "."
                            THEN <<"Error creating directory. Using current folder.">>
                            ELSE <<>>
         IN
         \* the custom path is used when it is not blank and exists; else
         \* Downloads, or "." when Downloads cannot be created
         /\ save_path = "custom" => ~Falsy(strip(custom_path))
         /\ fn # "delete_snapshot" => ok
         /\ Read("?report_path", custom_path)
         /\ IF ~wrote
            THEN /\ term' = term \o said \o <<Failed(fn)>>
                 /\ Finish("returned")
                 /\ UNCHANGED <<calls, disk, written>>
            ELSE IF fn = "isolate_instance"
            THEN /\ calls' = calls
                 /\ WriteFile(report_file, report, Len(calls))
                 /\ term' = term \o said
                            \o <<"Instance successfully isolated", "?create_snapshot">>
                 /\ pc' = "?create_snapshot"
                 /\ outcome' = "running"
            ELSE IF fn = "create_snapshot_evidence"
            THEN \* after the success lines, print_colored(..., Colors.WHITE)
                 \* raises AttributeError: the class has no such colour
                 /\ calls' = calls
                 /\ WriteFile(report_file, report, Len(calls))
                 /\ term' = term \o said
                            \o <<"Evidence preservation completed successfully", Failed(fn)>>
                 /\ Finish("returned")
            ELSE \* delete_snapshot: the audit report is on disk, and then
                 \* ec2.delete_snapshot(SnapshotId=snapshot_id) is called
                 /\ WriteFile(report_file, report, Len(calls))
                 /\ calls' = Append(calls, Call("delete_snapshot",
                                                locals.snapshot_id, ok))
                 /\ term' = term \o said
                            \o <<IF ok THEN "Snapshot deleted successfully" ELSE Failed(fn)>>
                 /\ Finish("returned")
    /\ UNCHANGED <<script, locals, shown, qsg, inst_sgs, now, runs>>

\* isolate_instance: "create an EBS snapshot for evidence preservation?".
isolate_create_snapshot ==
    /\ script = "isolate_instance"
    /\ pc = "?create_snapshot"
    /\ \E create_snapshot \in {<<>>, <<"Y">>, <<"n">>} :
         /\ Read("?create_snapshot", create_snapshot)
         /\ IF lower(create_snapshot) = <<"y">>
            THEN snapshot_volumes(locals.instance_id, locals)
            ELSE /\ Finish("returned")
                 /\ UNCHANGED <<locals, term>>
    /\ UNCHANGED <<script, shown, calls, world>>

\* The provider calls of create_snapshot_evidence's loop over `volumes`
\* volumes: create_snapshot then create_tags for each, of which the first
\* `good` succeed and the next one (if any) raises.
RECURSIVE snapshot_calls(_, _, _)
snapshot_calls(volumes, good, k) ==
    IF k > 2 * volumes \/ k > good + 1 THEN <<>>
    ELSE <<Call(IF k % 2 = 1 THEN "create_snapshot" ELSE "create_tags",
                (k + 1) \div 2, k <= good)>>
         \o snapshot_calls(volumes, good, k + 1)

\* A loop that counts as completed once one call has succeeded.
snapshot_loop_started(volumes, good) == good >= 1

\* create_snapshot_evidence: the loop over the volumes ran to its end, no
\* create_snapshot or create_tags call having raised.
snapshot_loop_completed(volumes, good) == good = 2 * volumes

\* "Enter case/incident number", "Enter reason for preservation", the loop
\* over the volumes and the start of the report.
snapshot_create ==
    /\ script \in {"isolate_instance", "create_snapshot_evidence"}
    /\ pc = "?case_number"
    /\ \E answers \in {<<<<>>, <<>>>>, <<<<"7">>, <<"r">>>>},
          good \in 0..(2 * MaxVolumes), t \in now..MaxClock :
         LET case_number == answers[1]
             reason      == answers[2]
             volumes     == locals.volumes
             snapshots   == [k \in 1..(good \div 2) |-> k]
         IN
         /\ good <= 2 * volumes
         /\ typed' = ("?reason" :> reason) @@ ("?case_number" :> case_number) @@ typed
         /\ calls' = calls \o snapshot_calls(volumes, good, 1)
         /\ IF ~snapshot_loop_completed(volumes, good)
            THEN /\ term' = term \o <<"?reason", Failed("create_snapshot_evidence")>>
                 /\ Finish("returned")
                 /\ locals' = [locals EXCEPT !.snapshots = snapshots]
                 /\ UNCHANGED now
            ELSE /\ now' = t
                 /\ locals' = [locals EXCEPT
                      !.snapshots = snapshots,
                      !.report = [subject |-> locals.instance_id,
                                  action |-> "EBS_SNAPSHOT_CREATION",
                                  details |->
                                    [case_number |-> IF Falsy(strip(case_number))
                                                     THEN <<"Not specified">>
                                                     ELSE case_number,
                                     reason |-> IF Falsy(strip(reason))
                                                THEN <<"Digital forensics evidence collection">>
                                                ELSE reason,
                                     snapshots |-> snapshots],
                                  timestamp |-> t]]
                 /\ term' = term \o <<"?reason", "?report_path">>
                 /\ pc' = "?report_path"
                 /\ outcome' = "running"
    /\ UNCHANGED <<script, shown, qsg, inst_sgs, disk, written, runs>>

\* delete_snapshot: describe_snapshots(SnapshotIds=[id]) and the prompt
\* "Enter reason for deletion".
delete_snapshot_verify(snapshot_id, base) ==
    \E found \in BOOLEAN :
      /\ locals' = [base EXCEPT !.snapshot_id = snapshot_id]
      /\ IF found THEN Ask("?reason")
                  ELSE Say("Error: Snapshot not found", "returned")

\* main: check_aws_credentials, then `snapshot delete [snapshot-id]`.
main_snapshot_delete ==
    /\ Begin("delete_snapshot")
    /\ \E creds \in BOOLEAN, snapshot_id \in {None, <<"a">>, <<"b">>},
          err \in BOOLEAN, snapshots \in Listings :
         LET base == EvLocals("delete_snapshot")
         IN
         IF ~creds
         THEN /\ Say("Error: AWS credentials not configured or invalid", "exit1")
              /\ locals' = base
              /\ UNCHANGED shown
         ELSE IF ~Falsy(snapshot_id)
         THEN /\ delete_snapshot_verify(snapshot_id, base)
              /\ UNCHANGED shown
         ELSE IF err
         THEN /\ Say("Error retrieving snapshots", "returned")
              /\ locals' = base
              /\ UNCHANGED shown
         ELSE IF snapshots = <<>>
         THEN /\ Say("No snapshots found", "returned")
              /\ locals' = base
              /\ UNCHANGED shown
         ELSE /\ shown' = ("?select_snapshot" :> snapshots) @@ shown
              /\ locals' = [base EXCEPT !.instances = snapshots]
              /\ Ask("?select_snapshot")
    /\ UNCHANGED <<typed, calls, world>>

\* "Select snapshot number to delete (or 'q' to quit)".
delete_snapshot_select ==
    /\ script = "delete_snapshot"
    /\ pc = "?select_snapshot"
    /\ \E selection \in SelectionInputs :
         LET r == get_instance_selection(locals.instances, selection)
         IN  /\ Read("?select_snapshot", selection)
             /\ IF Falsy(r.ret)
                THEN /\ Say(r.msg, "returned")
                     /\ UNCHANGED locals
                ELSE delete_snapshot_verify(r.ret, locals)
    /\ UNCHANGED <<script, shown, calls, world>>

\* "Enter reason for deletion (required for audit trail)".
delete_snapshot_reason ==
    /\ script = "delete_snapshot"
    /\ pc = "?reason"
    /\ \E deletion_reason \in {<<>>, <<" ">>, <<"r">>} :
         /\ Read("?reason", deletion_reason)
         /\ locals' = [locals EXCEPT !.reason = deletion_reason]
         /\ IF Falsy(strip(deletion_reason))
            THEN Say("Error: Deletion reason is required", "returned")
            ELSE Ask("?confirm1")
    /\ UNCHANGED <<script, shown, calls, world>>

\* A first confirmation that ignores case.
delete_snapshot_anycase(confirm1) == lower(confirm1) = <<"d", "e", "l", "e", "t", "e">>

\* delete_snapshot: `if confirm1 != 'DELETE'`.
delete_snapshot_confirmed1(confirm1) == confirm1 = <<"D", "E", "L", "E", "T", "E">>

\* delete_snapshot: `if confirm2.lower() != 'yes'`.
delete_snapshot_confirmed2(confirm2) == lower(confirm2) = <<"y", "e", "s">>

\* "Type 'DELETE' to confirm snapshot deletion".
delete_snapshot_confirm1 ==
    /\ script = "delete_snapshot"
    /\ pc = "?confirm1"
    /\ \E confirm1 \in ConfirmInputs :
         /\ Read("?confirm1", confirm1)
         /\ IF ~delete_snapshot_confirmed1(confirm1)
            THEN Say("Operation cancelled - confirmation text did not match", "returned")
            ELSE Ask("?confirm2")
    /\ UNCHANGED <<script, locals, shown, calls, world>>

\* "Are you absolutely sure? (yes/no)" and the start of the audit report.
delete_snapshot_confirm2 ==
    /\ script = "delete_snapshot"
    /\ pc = "?confirm2"
    /\ \E confirm2 \in ConfirmInputs, t \in now..MaxClock :
         /\ Read("?confirm2", confirm2)
         /\ IF ~delete_snapshot_confirmed2(confirm2)
            THEN /\ Say("Operation cancelled", "returned")
                 /\ UNCHANGED <<locals, now>>
            ELSE new_evidence_report(<<"DELETED-SNAPSHOT">>, "SNAPSHOT_DELETION",
                   [snapshot_id |-> locals.snapshot_id, reason |-> locals.reason], t)
    /\ UNCHANGED <<script, shown, calls, qsg, inst_sgs, disk, written, runs>>

\* A process has ended and the operator starts the next one.
NewRun ==
    /\ script # "none"
    /\ pc = "done"
    /\ runs + 1 < MaxRuns
    /\ runs' = runs + 1
    /\ script' = "none"
    /\ pc' = "done"
    /\ locals' = NoLocals
    /\ shown' = NoShown
    /\ term' = <<>>
    /\ typed' = NoTyped
    /\ calls' = <<>>
    /\ outcome' = "returned"
    /\ UNCHANGED <<qsg, inst_sgs, disk, written, now>>

\* ------------------------------------------- AWS/s3_bucket_evidence.py
\* main, up to its first input(): load_credentials raises RuntimeError
\* when a key is missing.
s3_bucket_evidence_main ==
    /\ Begin("s3_bucket_evidence")
    /\ \E creds \in BOOLEAN :
         IF ~creds
         THEN Say("RuntimeError: AWS_ACCESS_KEY_ID / AWS_SECRET_ACCESS_KEY not set", "crash")
         ELSE Ask("?include_objects")
    /\ locals' = [output_dir |-> None]
    /\ UNCHANGED <<shown, typed, calls, world>>

\* main from "Include object count and total size?" on, with
\* prompt_output_path: "Enter directory path", the mkdir of a missing
\* directory, the bucket listing and the write of the evidence file.
s3_bucket_evidence_collect ==
    /\ script = "s3_bucket_evidence"
    /\ pc = "?include_objects"
    /\ \E include_objects \in {<<>>, <<"Y">>}, user_input \in {<<>>, <<"p">>},
          dir \in {"exists", "created", "mkdir failed"},
          listed \in BOOLEAN, bucket_list \in Listings,
          wrote \in BOOLEAN, t \in now..MaxClock :
         LET output_dir  == IF Falsy(strip(user_input)) THEN "Desktop" ELSE "custom"
             output_file == <<output_dir, "s3_bucket_evidence", t>>
             evidence    == [buckets |-> bucket_list,
                             include_objects |-> lower(strip(include_objects)) = <<"y">>]
         IN
         /\ typed' = ("?output_dir" :> user_input)
                       @@ ("?include_objects" :> include_objects) @@ typed
         /\ locals' = [output_dir |-> output_dir]
         /\ IF dir = "mkdir failed"
            THEN /\ term' = term \o <<"?output_dir", "Could not create directory">>
                 /\ Finish("exit1")
                 /\ UNCHANGED <<disk, written, now>>
            ELSE IF ~listed
            THEN /\ term' = term \o <<"?output_dir", "ClientError">>
                 /\ Finish("crash")
                 /\ UNCHANGED <<disk, written, now>>
            ELSE IF bucket_list = <<>>
            THEN /\ term' = term \o <<"?output_dir", "No buckets found in this AWS account">>
                 /\ Finish("returned")
                 /\ UNCHANGED <<disk, written, now>>
            ELSE IF ~wrote
            THEN /\ term' = term \o <<"?output_dir", "Failed to write output file">>
                 /\ Finish("returned")
                 /\ now' = t
                 /\ UNCHANGED <<disk, written>>
            ELSE /\ term' = term \o <<"?output_dir", "Evidence saved">>
                 /\ Finish("returned")
                 /\ now' = t
                 /\ WriteFile(output_file, evidence, Len(calls))
    /\ UNCHANGED <<script, shown, calls, qsg, inst_sgs, runs>>

\* ------------------------------------------------ Azure/mysql_connect.py
\* connect_via_jumpserver: `for i in range(60)`.
SshProbes == 60

\* __init__: the jump-server info file, one fixed path in the temp
\* directory for every invocation.
jumpserver_info_file == <<"tmp", "azure_mysql_jumpserver_info.txt">>

\* f"mysql-jumpserver-{int(time.time())}" for a VM created at time t.
JumpserverName(t) == <<"mysql-jumpserver", t>>

\* The jump-server VMs found in the resource group, created before the
\* clock of the model started.
ExistingJumpservers == {<<>>, <<JumpserverName(-1)>>,
                        <<JumpserverName(-1), JumpserverName(-2)>>}

\* The servers `az mysql flexible-server list` returns, and the lines typed
\* at "Select server number or enter name".
MysqlServers == {<<>>, << <<"a">>, <<"b">> >>}

ServerInputs == {<<>>, <<" ">>, <<"2">>, <<"3">>, <<"0">>, <<" ", "1">>, <<"q">>, <<"b", " ">>}

\* The locals of main and of the functions it calls.
MysqlLocals ==
    [servers |-> <<>>, server_name |-> None,
     server |-> [found |-> "unasked", state |-> "Stopped", network |-> "Disabled",
                 rules |-> "none"],
     public |-> FALSE, existing |-> <<>>,
     jumpserver |-> None, probes |-> 0, rule |-> FALSE, tunnel |-> "none"]

\* The file f without path p (os.remove).
Removed(f, p) == [q \in (DOMAIN f) \ {p} |-> f[q]]

\* cleanup_jumpserver: the five delete commands for the jump server named
\* in the info file; those in `failed` fail or time out, which is ignored.
cleanup_jumpserver(jumpserver_name, failed) ==
    LET kinds == <<"vm", "nic", "public-ip", "nsg", "disk">>
    IN  [i \in 1..5 |-> Call("jumpserver delete",
                             [name |-> jumpserver_name, kind |-> kinds[i]],
                             i \notin failed)]

\* The process exits after printing msgs: the atexit hook runs
\* cleanup_jumpserver, which acts on the info file if one exists, whoever
\* wrote it.  `after` are the commands of a `finally` block that runs after
\* the signal handler's cleanup.  (az is taken to be on the PATH.)
AtExit(msgs, how, issued, after) ==
    /\ pc' = "done"
    /\ outcome' = how
    /\ IF jumpserver_info_file \in DOMAIN disk
       THEN \E failed \in {{}, {1}, 1..5} :
              /\ calls' = issued
                           \o cleanup_jumpserver(disk[jumpserver_info_file].name, failed)
                           \o after
              /\ term' = term \o msgs \o <<"Cleaning up jump server resources...">>
              /\ disk' = Removed(disk, jumpserver_info_file)
       ELSE /\ calls' = issued \o after
            /\ term' = term \o msgs
            /\ disk' = disk

\* create_jumpserver_vm from "# Create new jump server VM" on, and the
\* entry of connect_via_jumpserver.
create_jumpserver_new(loc, issued) ==
    \E res \in {"ok", "failed", "no ip", "not saved"}, t \in now..MaxClock :
      LET jumpserver_name == JumpserverName(t)
          created == Append(issued, Call("vm create", jumpserver_name, res # "failed"))
      IN
      /\ now' = t
      /\ IF res = "failed"
         THEN /\ AtExit(<<"Error: Failed to create jump server VM">>, "exit1", created, <<>>)
              /\ locals' = loc
              /\ UNCHANGED written
         ELSE IF res \in {"no ip", "not saved"}
         THEN /\ AtExit(<<"Unexpected error">>, "exit1", created, <<>>)
              /\ locals' = loc
              /\ UNCHANGED written
         ELSE /\ calls' = created
              /\ WriteFile(jumpserver_info_file, [name |-> jumpserver_name], Len(created))
              /\ locals' = [loc EXCEPT !.jumpserver = jumpserver_name]
              /\ term' = Append(term, "Waiting for VM to be fully ready")
              /\ pc' = "ssh_wait"
              /\ outcome' = "running"

\* create_jumpserver_vm, up to "Use existing jump server? (Y/n)".
create_jumpserver_vm(loc) ==
    \E listed \in BOOLEAN, existing \in ExistingJumpservers :
      IF ~listed \/ existing = <<>>
      THEN /\ create_jumpserver_new(loc, calls)
           /\ UNCHANGED shown
      ELSE /\ shown' = ("?use_existing" :> existing) @@ shown
           /\ locals' = [loc EXCEPT !.existing = existing]
           /\ Ask("?use_existing")
           /\ UNCHANGED <<calls, disk, written, now>>

\* A get_server_info that takes the server's publicNetworkAccess as it is.
public_access_unchecked(network, rules) == network

\* get_server_info: the public_access it returns for a server whose
\* publicNetworkAccess is `network` and whose firewall-rule listing gave
\* `rules` ("failed": the az command failed).
public_access(network, rules) ==
    IF network = "Enabled" /\ rules = "some" THEN "Enabled" ELSE "Disabled"

\* What `az mysql flexible-server list` and `firewall-rule list` answer.
\* The rules are listed for a Ready server with public access only.
ServerAnswers ==
    {a \in [found : {"error", "none", "one"}, state : {"Ready", "Stopped"},
            network : {"Enabled", "Disabled"},
            rules : {"failed", "none", "some", "garbled"}] :
       /\ a.found # "one" => a.state = "Stopped"
       /\ a.state # "Ready" => a.network = "Disabled"
       /\ a.network # "Enabled" => a.rules = "none"}

\* main from "# Get server information" on: get_server_info, then the
\* public or the jump-server connection.
get_server_info(loc) ==
    \E a \in ServerAnswers :
      LET info == [loc EXCEPT !.server = a]
      IN
      IF a.found # "one" \/ a.state # "Ready" \/ a.rules = "garbled"
      THEN /\ AtExit(<<IF a.found = "error" THEN "Error getting server information"
                       ELSE IF a.found = "none" THEN "Error: MySQL server not found"
                       ELSE IF a.state # "Ready" THEN "Error: Server is not ready"
                       ELSE "Unexpected error">>,
                     "exit1", calls, <<>>)
           /\ locals' = info
           /\ UNCHANGED <<shown, written, now>>
      ELSE IF public_access(a.network, a.rules) = "Enabled"
      THEN /\ locals' = [info EXCEPT !.public = TRUE]
           /\ Ask("?mysql_user")
           /\ UNCHANGED <<shown, calls, disk, written, now>>
      ELSE create_jumpserver_vm(info)

\* main, up to the first input().
mysql_connect_main ==
    /\ Begin("mysql_connect")
    /\ \E help_detailed \in BOOLEAN, prerequisites \in BOOLEAN,
          server_name \in {None, <<"a">>} :
         IF help_detailed
         THEN /\ AtExit(<<"Usage: python mysql_connect.py [SERVER_NAME]">>, "exit0", calls, <<>>)
              /\ locals' = MysqlLocals
              /\ UNCHANGED <<shown, written, now>>
         ELSE IF ~prerequisites
         THEN /\ AtExit(<<"Error: prerequisites">>, "exit1", calls, <<>>)
              /\ locals' = MysqlLocals
              /\ UNCHANGED <<shown, written, now>>
         ELSE IF Falsy(server_name)
         THEN \E listed \in BOOLEAN, servers \in MysqlServers :
                IF ~listed \/ servers = <<>>
                THEN /\ AtExit(<<IF listed THEN "No MySQL flexible servers found"
                                           ELSE "Error retrieving MySQL servers">>,
                               "exit1", calls, <<>>)
                     /\ locals' = MysqlLocals
                     /\ UNCHANGED <<shown, written, now>>
                ELSE /\ shown' = ("?server_input" :> servers) @@ shown
                     /\ locals' = [MysqlLocals EXCEPT !.servers = servers]
                     /\ Ask("?server_input")
                     /\ UNCHANGED <<calls, disk, written, now>>
         ELSE get_server_info([MysqlLocals EXCEPT !.server_name = server_name])
    /\ UNCHANGED <<typed, qsg, inst_sgs, runs>>

\* "Select server number or enter name".
mysql_connect_select ==
    /\ script = "mysql_connect"
    /\ pc = "?server_input"
    /\ \E line \in ServerInputs :
         LET server_input == strip(line)
             server_index == DecVal(server_input) - 1
         IN
         /\ Read("?server_input", line)
         /\ IF Falsy(server_input)
            THEN /\ AtExit(<<"Error: Server selection is required">>, "exit1", calls, <<>>)
                 /\ UNCHANGED <<locals, shown, written, now>>
            ELSE IF isdigit(server_input)
                    /\ ~(0 <= server_index /\ server_index < Len(locals.servers))
            THEN /\ AtExit(<<"Error: Invalid selection">>, "exit1", calls, <<>>)
                 /\ UNCHANGED <<locals, shown, written, now>>
            ELSE get_server_info(
                   [locals EXCEPT !.server_name =
                      IF isdigit(server_input)
                      THEN locals.servers[server_index + 1]
                      ELSE server_input])
    /\ UNCHANGED <<script, qsg, inst_sgs, runs>>

\* "Use existing jump server? (Y/n)".
mysql_connect_use_existing ==
    /\ script = "mysql_connect"
    /\ pc = "?use_existing"
    /\ \E line \in {<<>>, <<"n">>, <<"N">>, <<"y">>},
          res \in {"ok", "started", "show failed", "start failed", "not saved"} :
         LET use_existing == lower(line)
             jumpserver_name == locals.existing[1]
             started == IF res \in {"started", "start failed"}
                        THEN Append(calls, Call("vm start", jumpserver_name,
                                                res = "started"))
                        ELSE calls
         IN
         /\ Read("?use_existing", line)
         /\ IF use_existing = <<"n">>
            THEN /\ res = "ok"
                 /\ create_jumpserver_new(locals, calls)
            ELSE IF res \in {"show failed", "start failed"}
            THEN create_jumpserver_new(locals, started)
            ELSE IF res = "not saved"
            THEN /\ AtExit(<<"Unexpected error">>, "exit1", started, <<>>)
                 /\ UNCHANGED <<locals, written, now>>
            ELSE /\ calls' = started
                 /\ WriteFile(jumpserver_info_file, [name |-> jumpserver_name],
                              Len(started))
                 /\ locals' = [locals EXCEPT !.jumpserver = jumpserver_name]
                 /\ term' = Append(term, "Waiting for VM to be fully ready")
                 /\ pc' = "ssh_wait"
                 /\ outcome' = "running"
                 /\ UNCHANGED now
    /\ UNCHANGED <<script, shown, qsg, inst_sgs, runs>>

\* The readiness loop that never gives up.
ssh_wait_unbounded(l) == FALSE

\* connect_via_jumpserver: range(60) is exhausted with ssh_ready still False.
ssh_timeout(l) == l.probes = SshProbes

\* connect_via_jumpserver: one iteration of the SSH readiness loop and,
\* once it is left, the code up to "Enter MySQL username".  The loop
\* index is not read after a successful probe and is dropped there.
mysql_connect_ssh_probe ==
    /\ script = "mysql_connect"
    /\ pc = "ssh_wait"
    /\ locals.probes < SshProbes
    /\ \E res \in {"ready", "refused", "no ssh"}, rule \in BOOLEAN :
         LET probed == [locals EXCEPT !.probes = @ + 1]
             ruled == Append(calls, Call("firewall-rule create",
                                         locals.server_name, rule))
         IN
         IF res = "no ssh"
         THEN /\ rule
              /\ AtExit(<<"Unexpected error">>, "exit1", calls, <<>>)
              /\ locals' = probed
         ELSE IF res = "refused"
         THEN /\ rule
              /\ locals' = probed
              /\ IF ssh_timeout(probed)
                 THEN AtExit(<<"Error: SSH connection timeout">>, "exit1", calls, <<>>)
                 ELSE UNCHANGED <<pc, outcome, term, calls, disk>>
         ELSE IF ~rule
         THEN /\ AtExit(<<"SSH connection established", "Unexpected error">>,
                        "exit1", ruled, <<>>)
              /\ locals' = probed
         ELSE /\ locals' = [probed EXCEPT !.rule = TRUE, !.probes = 0]
              /\ calls' = ruled
              /\ term' = term \o <<"SSH connection established", "?mysql_user">>
              /\ pc' = "?mysql_user"
              /\ outcome' = "running"
              /\ UNCHANGED disk
    /\ UNCHANGED <<script, shown, typed, written, now, qsg, inst_sgs, runs>>

\* "Enter MySQL username", the password and the database name, in
\* connect_public_mysql and in connect_via_jumpserver, where the SSH tunnel
\* is then started.
mysql_connect_credentials ==
    /\ script = "mysql_connect"
    /\ pc = "?mysql_user"
    /\ \E mysql_user \in {<<>>, <<"u">>}, mysql_password \in {<<>>, <<"p">>} :
         /\ Read("?mysql_user", mysql_user)
         /\ IF Falsy(mysql_user)
            THEN /\ AtExit(<<"Error: Username is required">>, "exit1", calls, <<>>)
                 /\ UNCHANGED locals
            ELSE IF Falsy(mysql_password)
            THEN /\ AtExit(<<"Error: Password is required">>, "exit1", calls, <<>>)
                 /\ UNCHANGED locals
            ELSE IF locals.public
            THEN /\ term' = Append(term, "Connecting to MySQL...")
                 /\ pc' = "mysql"
                 /\ outcome' = "running"
                 /\ UNCHANGED <<locals, calls, disk>>
            ELSE /\ calls' = Append(calls, Call("ssh tunnel", locals.jumpserver, TRUE))
                 /\ locals' = [locals EXCEPT !.tunnel = "open"]
                 /\ term' = Append(term, "Starting SSH tunnel in background...")
                 /\ pc' = "sleep"
                 /\ outcome' = "running"
                 /\ UNCHANGED disk
    /\ UNCHANGED <<script, shown, written, now, qsg, inst_sgs, runs>>

\* connect_via_jumpserver: time.sleep(2) returns and the mysql client is
\* started inside the try block.
mysql_connect_tunnel_up ==
    /\ script = "mysql_connect"
    /\ pc = "sleep"
    /\ term' = Append(term, "Connecting to MySQL through tunnel...")
    /\ pc' = "mysql"
    /\ UNCHANGED <<script, locals, shown, typed, calls, outcome, world>>

\* The `finally` block of connect_via_jumpserver.
tunnel_cleanup(rule_deleted) ==
    <<Call("firewall-rule delete", locals.server_name, rule_deleted),
      Call("pkill ssh tunnel", locals.jumpserver, TRUE)>>

\* The mysql client ends; connect_public_mysql or the rest of
\* connect_via_jumpserver, then the end of main.
mysql_connect_session_end ==
    /\ script = "mysql_connect"
    /\ pc = "mysql"
    /\ \E ok \in BOOLEAN, rule_deleted \in BOOLEAN :
         LET ran == Append(calls, Call("mysql", locals.server_name, ok))
         IN
         IF locals.public
         THEN /\ rule_deleted
              /\ UNCHANGED locals
              /\ IF ok
                 THEN AtExit(<<"MySQL connection closed">>, "exit0", ran, <<>>)
                 ELSE AtExit(<<"MySQL connection failed">>, "exit1", ran, <<>>)
         ELSE /\ locals' = [locals EXCEPT !.tunnel = "closed"]
              /\ AtExit((IF ok THEN <<>> ELSE <<"MySQL connection failed">>)
                          \o <<"Cleaning up...", "MySQL connection closed">>,
                        "exit0", ran \o tunnel_cleanup(rule_deleted), <<>>)
    /\ UNCHANGED <<script, shown, typed, written, now, qsg, inst_sgs, runs>>

\* _signal_handler: SIGINT or SIGTERM arrives while the process runs.
\* cleanup_jumpserver is called, then sys.exit(1) unwinds the stack, which
\* runs the `finally` block if the mysql client was running inside the try.
mysql_connect_signal ==
    /\ script = "mysql_connect"
    /\ pc # "done"
    /\ \E rule_deleted \in BOOLEAN :
         LET in_try == pc = "mysql" /\ ~locals.public
             killed == IF pc = "mysql"
                       THEN <<Call("mysql", locals.server_name, FALSE)>>
                       ELSE <<>>
         IN
         /\ in_try \/ rule_deleted
         /\ locals' = [locals EXCEPT !.tunnel = IF in_try THEN "closed" ELSE @]
         /\ AtExit(<<"Received signal">>, "exit1",
                   calls,
                   killed \o (IF in_try THEN tunnel_cleanup(rule_deleted) ELSE <<>>))
    /\ UNCHANGED <<script, shown, typed, written, now, qsg, inst_sgs, runs>>

\* The process is killed outright (SIGKILL, power loss): no handler and no
\* atexit hook runs.
mysql_connect_kill ==
    /\ script = "mysql_connect"
    /\ pc # "done"
    /\ Finish("killed")
    /\ UNCHANGED <<script, locals, shown, term, typed, calls, world>>

\* ------------------------------------- AWS/s3_manager.py upload_files
\* What becomes of one file argument: os.path.isfile is false, upload_file
\* returns, raises ClientError, or raises another exception
\* (boto3's S3UploadFailedError is not a ClientError).
FileKinds == {"uploads", "missing", "ClientError", "raises"}

FileLists == UNION {[1..n -> FileKinds] : n \in 0..MaxFiles}

\* The `for file_path in files` loop from file i on, with the tally so far.
RECURSIVE upload_loop(_, _, _)
upload_loop(files, i, tally) ==
    IF i > Len(files) THEN tally
    ELSE IF files[i] = "missing" THEN upload_loop(files, i + 1, tally)
    ELSE LET issued == Append(tally.calls,
                              Call("upload_file", i, files[i] = "uploads"))
         IN  IF files[i] = "raises"
             THEN [tally EXCEPT !.calls = issued, !.crashed = TRUE]
             ELSE IF files[i] = "uploads"
             THEN upload_loop(files, i + 1,
                              [tally EXCEPT !.calls = issued, !.success_count = @ + 1])
             ELSE upload_loop(files, i + 1,
                              [tally EXCEPT !.calls = issued, !.fail_count = @ + 1])

\* main: `files = args[:-1] if args and args[-1] else args`.
upload_args_files(args) ==
    IF args # <<>> THEN SubSeq(args, 1, Len(args) - 1) ELSE args

\* main: `bucket_name = args[-1] if args else None`.
upload_args_bucket(args) ==
    IF args # <<>> THEN <<args[Len(args)]>> ELSE None

\* main's `upload` branch and upload_files, for a command line of file
\* paths followed or not by a bucket name.
upload_files ==
    /\ Begin("upload_files")
    /\ \E creds \in BOOLEAN, paths \in FileLists, bucket_given \in BOOLEAN :
         LET args  == paths \o (IF bucket_given THEN <<"bucket">> ELSE <<>>)
             files == upload_args_files(args)
             tally == upload_loop(files, 1,
                                  [success_count |-> 0, fail_count |-> 0,
                                   calls |-> <<>>, crashed |-> FALSE])
         IN
         /\ locals' = [paths |-> paths, bucket_given |-> bucket_given,
                       bucket_name |-> upload_args_bucket(args),
                       files |-> files,
                       success_count |-> IF creds THEN tally.success_count ELSE 0,
                       fail_count |-> IF creds THEN tally.fail_count ELSE 0]
         /\ IF ~creds
            THEN /\ Say("Error: AWS credentials not configured", "exit1")
                 /\ UNCHANGED calls
            ELSE IF files = <<>>
            THEN /\ Say("Error: No files specified", "returned")
                 /\ UNCHANGED calls
            ELSE /\ calls' = tally.calls
                 /\ IF tally.crashed
                    THEN Say("Traceback", "crash")
                    ELSE Say("Successfully uploaded", "returned")
    /\ UNCHANGED <<shown, typed, world>>

\* ------------------------------- Azure/mysql_manager.py delete_database
\* main's `delete` branch and delete_database, up to the first input().
delete_database_main ==
    /\ Begin("delete_database")
    /\ \E name \in {None, <<"a">>} :
         /\ locals' = [name |-> name, user |-> None]
         /\ IF Falsy(name) THEN Ask("?name") ELSE Ask("?user")
    /\ UNCHANGED <<shown, typed, calls, world>>

\* "Enter database name to delete".
delete_database_name ==
    /\ script = "delete_database"
    /\ pc = "?name"
    /\ \E line \in IdInputs :
         /\ Read("?name", line)
         /\ locals' = [locals EXCEPT !.name = strip(line)]
         /\ IF Falsy(strip(line))
            THEN Say("Database name required", "returned")
            ELSE Ask("?user")
    /\ UNCHANGED <<script, shown, calls, world>>

\* get_mysql_credentials, then `env = {**dict(**os.environ), ...}`: the
\* module imports subprocess, getpass and sys only (`import os` is local to
\* main), so the name os is undefined here and NameError ends the run
\* before the confirmation is asked.
delete_database_credentials ==
    /\ script = "delete_database"
    /\ pc = "?user"
    /\ \E line \in {<<>>, <<"u">>} :
         /\ Read("?user", line)
         /\ locals' = [locals EXCEPT !.user =
                         IF Falsy(strip(line))
                         THEN <<"m", "y", "s", "q", "l", "a", "d", "m", "i", "n">>
                         ELSE strip(line)]
         /\ Say("NameError: name 'os' is not defined", "crash")
    /\ UNCHANGED <<script, shown, calls, world>>

\* ------------------------------- AWS/s3_manager.py, dump_bucket
\* What stops a dump after the temporary directory was made: nothing, a
\* ClientError of a download (caught by dump_bucket), or an OSError of
\* os.makedirs or zipfile (caught nowhere).
DumpFaults == {"none", "ClientError", "OSError"}

\* How a dump of file_count objects can go: `done` downloads succeed; a
\* ClientError stops a download, an OSError a download or the archive.
DumpRuns(file_count) ==
    {r \in [fault : DumpFaults, done : 0..file_count] :
        /\ r.fault = "none" => r.done = file_count
        /\ r.fault = "ClientError" => r.done < file_count}

\* The downloads of a dump of file_count objects of which `done` succeed;
\* the one after them, if there is one, raises.
dump_downloads(bucket_name, file_count, done) ==
    [i \in 1..(IF done < file_count THEN done + 1 ELSE done) |->
        Call("download_file", bucket_name, i <= done)]

\* dump_bucket from tempfile.mkdtemp() to its end.
dump_bucket_download(fault, done) ==
    LET n       == locals.file_count
        fetched == calls \o <<Call("mkdtemp", None, TRUE)>>
                         \o dump_downloads(locals.bucket_name, n, done)
    IN  IF done < n
        THEN /\ calls' = fetched
             /\ IF fault = "ClientError"
                THEN Say("Error", "returned")
                ELSE Say("OSError", "crash")
        ELSE IF fault = "OSError"
        THEN /\ calls' = Append(fetched, Call("ZipFile", locals.bucket_name, FALSE))
             /\ term' = term \o <<"Files downloaded", "OSError">>
             /\ Finish("crash")
        ELSE /\ calls' = fetched \o <<Call("ZipFile", locals.bucket_name, TRUE),
                                      Call("rmtree", None, TRUE)>>
             /\ term' = term \o <<"Files downloaded", "Zip archive created",
                                  "Dump complete!">>
             /\ Finish("returned")

\* dump_bucket with a bucket name, up to "Save zip to ...? (Y/n)".
dump_bucket_main ==
    /\ Begin("dump_bucket")
    /\ \E res \in {"ClientError", "empty", "ok"}, n \in 1..MaxFiles :
         /\ calls' = Append(calls, Call("list_objects_v2", <<"a">>, res # "ClientError"))
         /\ IF res = "ClientError"
            THEN /\ Say("Error", "returned")
                 /\ UNCHANGED locals
            ELSE IF res = "empty"
            THEN /\ Say("Bucket is empty", "returned")
                 /\ UNCHANGED locals
            ELSE /\ locals' = [bucket_name |-> <<"a">>, file_count |-> n]
                 /\ Ask("?save_zip")
    /\ UNCHANGED <<shown, typed, world>>

\* `confirm = input(...).strip().lower()`; 'n' asks for the path.
dump_bucket_confirm ==
    /\ script = "dump_bucket"
    /\ pc = "?save_zip"
    /\ \E line \in ConfirmInputs, r \in DumpRuns(locals.file_count) :
         /\ Read("?save_zip", line)
         /\ IF lower(strip(line)) = <<"n">>
            THEN /\ Ask("?zip_path")
                 /\ UNCHANGED calls
            ELSE dump_bucket_download(r.fault, r.done)
    /\ UNCHANGED <<script, locals, shown, world>>

\* "Enter zip file path: ", then the download.
dump_bucket_zip_path ==
    /\ script = "dump_bucket"
    /\ pc = "?zip_path"
    /\ \E line \in {<<"z">>}, r \in DumpRuns(locals.file_count) :
         /\ Read("?zip_path", line)
         /\ dump_bucket_download(r.fault, r.done)
    /\ UNCHANGED <<script, locals, shown, world>>

\* ------------------- Azure/blob_storage_manager.py, dump_blob_container
\* dump_blob_container up to "Save zip to ...? (ENTER to confirm, or type
\* path)": the container is looked up and its blobs are downloaded.
dump_blob_container_main ==
    /\ Begin("dump_blob_container")
    /\ \E found \in BOOLEAN, code \in {0, 1} :
         IF ~found
         THEN /\ Say("Blob Container not found", "returned")
              /\ UNCHANGED calls
         ELSE IF code # 0
         THEN /\ calls' = calls \o <<Call("mkdtemp", None, TRUE),
                                     Call("download-batch", <<"a">>, FALSE),
                                     Call("rmtree", None, TRUE)>>
              /\ Say("Error downloading blobs", "returned")
         ELSE /\ calls' = calls \o <<Call("mkdtemp", None, TRUE),
                                     Call("download-batch", <<"a">>, TRUE)>>
              /\ Ask("?save_zip_to")
    /\ UNCHANGED <<locals, shown, typed, world>>

\* The zip archive is written and the temporary directory removed.
dump_blob_container_zip ==
    /\ script = "dump_blob_container"
    /\ pc = "?save_zip_to"
    /\ \E line \in {<<>>, <<"z">>}, fault \in {"none", "OSError"} :
         /\ Read("?save_zip_to", line)
         /\ IF fault = "OSError"
            THEN /\ calls' = Append(calls, Call("ZipFile", <<"a">>, FALSE))
                 /\ Say("OSError", "crash")
            ELSE /\ calls' = calls \o <<Call("ZipFile", <<"a">>, TRUE),
                                        Call("rmtree", None, TRUE)>>
                 /\ Say("Dump complete", "returned")
    /\ UNCHANGED <<script, locals, shown, world>>

\* ------------------------------------------------ command dispatchers
\* sys.argv[1] when it names no operation: absent, a spelling of help, or
\* a word no dispatcher knows.
Help == <<"h", "e", "l", "p">>

Verbs == {None, Help, <<"H", "e", "l", "p">>, <<"x">>}

\* The dispatcher ends after printing msgs.
Dispatched(command, msgs, how) ==
    /\ locals' = [command |-> command]
    /\ term' = term \o msgs
    /\ Finish(how)
    /\ UNCHANGED <<shown, typed, calls, world>>

\* AWS/ec2_manager.py main and AWS/s3_manager.py main, which are alike.
aws_manager_main(h) ==
    /\ Begin(h)
    /\ \E creds \in BOOLEAN, argv1 \in Verbs :
         IF ~creds
         THEN Dispatched(argv1, <<"Error: AWS credentials not configured">>, "exit1")
         ELSE IF argv1 = None
         THEN Dispatched(argv1, <<"usage">>, "exit0")
         ELSE IF lower(argv1) = Help
         THEN Dispatched(argv1, <<"usage">>, "returned")
         ELSE Dispatched(argv1, <<"Error: Unknown command", "usage">>, "exit1")

ec2_manager_main == aws_manager_main("ec2_manager")

s3_manager_main == aws_manager_main("s3_manager")

\* AWS/ec2_evidence_preservation.py main.
ec2_evidence_preservation_main ==
    /\ Begin("ec2_evidence_preservation")
    /\ \E creds \in BOOLEAN, argv1 \in Verbs :
         IF argv1 = None
         THEN Dispatched(argv1, <<"usage">>, "exit0")
         ELSE IF ~creds
         THEN Dispatched(argv1, <<"Error: AWS credentials not configured">>, "exit1")
         ELSE IF lower(argv1) = Help
         THEN Dispatched(argv1, <<"usage">>, "exit0")
         ELSE Dispatched(argv1, <<"Error: Unknown command", "usage">>, "exit1")

\* Azure/blob_storage_manager.py main.
blob_storage_manager_main ==
    /\ Begin("blob_storage_manager")
    /\ \E argv1 \in Verbs :
         IF argv1 = None
         THEN Dispatched(argv1, <<"usage">>, "returned")
         ELSE Dispatched(argv1, <<"Unknown command.">>, "returned")

\* Azure/storage_account_manager.py main.
storage_account_manager_main ==
    /\ Begin("storage_account_manager")
    /\ \E argv1 \in Verbs :
         Dispatched(argv1, <<"usage">>, "returned")

\* Azure/vm_manager.py main: argparse rejects a command outside its
\* choices with exit status 2.
vm_manager_main ==
    /\ Begin("vm_manager")
    /\ \E argv1 \in Verbs :
         IF argv1 = None
         THEN Dispatched(argv1, <<"usage">>, "exit1")
         ELSE IF argv1 = Help
         THEN Dispatched(argv1, <<"usage">>, "returned")
         ELSE Dispatched(argv1, <<"error: argument command: invalid choice">>, "exit2")

\* ------------------------------------------------------- specifications
Init ==
    /\ Idle
    /\ qsg \in {"absent", "closed", "open"}
    /\ inst_sgs = [i \in Ids |-> OriginalSgs]
    /\ disk = NoFiles
    /\ written = <<>>
    /\ now = 0
    /\ runs = 0

Next ==
    \/ setup_delete_bucket_list
    \/ setup_delete_bucket_choice
    \/ setup_delete_bucket_confirm
    \/ download_from_blob_container_list
    \/ download_from_blob_container_sel
    \/ download_from_blob_container_save
    \/ download_file_main
    \/ download_file_bucket
    \/ download_file_file
    \/ download_file_to
    \/ download_file_get
    \/ delete_storage_account_list
    \/ delete_storage_account_choice
    \/ delete_storage_account_confirm
    \/ remove_instance_main
    \/ remove_instance_id
    \/ remove_instance_confirm
    \/ delete_bucket_main
    \/ delete_bucket_name
    \/ delete_bucket_confirm
    \/ delete_vm_main
    \/ delete_vm_select
    \/ delete_vm_confirm
    \/ delete_vm_cleanup
    \/ main_isolate
    \/ main_snapshot
    \/ select_instance
    \/ isolate_confirm
    \/ write_report
    \/ isolate_create_snapshot
    \/ snapshot_create
    \/ main_snapshot_delete
    \/ delete_snapshot_select
    \/ delete_snapshot_reason
    \/ delete_snapshot_confirm1
    \/ delete_snapshot_confirm2
    \/ s3_bucket_evidence_main
    \/ s3_bucket_evidence_collect
    \/ ec2_manager_main
    \/ s3_manager_main
    \/ ec2_evidence_preservation_main
    \/ blob_storage_manager_main
    \/ storage_account_manager_main
    \/ vm_manager_main
    \/ upload_files
    \/ delete_database_main
    \/ delete_database_name
    \/ delete_database_credentials
    \/ dump_bucket_main
    \/ dump_bucket_confirm
    \/ dump_bucket_zip_path
    \/ dump_blob_container_main
    \/ dump_blob_container_zip

Spec == Init /\ [][Next]_vars

\* Sequences of `isolate` runs against one account and one disk.
NextRuns ==
    \/ main_isolate
    \/ select_instance
    \/ isolate_confirm
    \/ write_report
    \/ isolate_create_snapshot
    \/ NewRun

SpecRuns == Init /\ [][NextRuns]_vars

\* One invocation of mysql_connect, to which a signal may be delivered.
\* The readiness loop is not suspended for ever: each probe returns
\* (ConnectTimeout=5) and each sleep lasts a second.
InitMysql == Init /\ qsg = "absent"

NextMysql ==
    \/ mysql_connect_main
    \/ mysql_connect_select
    \/ mysql_connect_use_existing
    \/ mysql_connect_ssh_probe
    \/ mysql_connect_credentials
    \/ mysql_connect_tunnel_up
    \/ mysql_connect_session_end
    \/ mysql_connect_signal

SpecMysql == InitMysql /\ [][NextMysql]_vars /\ WF_vars(mysql_connect_ssh_probe)

\* Invocations of mysql_connect one after the other on one machine, each
\* of which may be interrupted or killed while it waits for the jump server.
NextMysqlRuns ==
    \/ mysql_connect_main
    \/ mysql_connect_select
    \/ mysql_connect_use_existing
    \/ mysql_connect_signal
    \/ mysql_connect_kill
    \/ NewRun

SpecMysqlRuns == InitMysql /\ [][NextMysqlRuns]_vars


\* --------------------------------------------------------------- claims
\* A local variable of the running handler (None: not assigned).
Local(f) == IF f \in DOMAIN locals THEN locals[f] ELSE None

\* The line is pure digits naming a number outside 1..n.
DigitsOutOfRange(line, n) ==
    /\ line # None
    /\ isdigit(strip(line))
    /\ (DecVal(strip(line)) < 1 \/ DecVal(strip(line)) > n)

\* The line is pure digits naming a number in 1..n.
DigitsInRange(line, n) ==
    /\ line # None
    /\ isdigit(line)
    /\ DecVal(line) >= 1
    /\ DecVal(line) <= n

\* At prompt p of handler h an out-of-range number was typed.
TypedOutOfRange(h, p) ==
    script = h /\ DigitsOutOfRange(Typed(p), Len(Displayed(p)))

\* At prompt p of handler h an in-range number was typed.
TypedInRange(h, p) ==
    script = h /\ DigitsInRange(Typed(p), Len(Displayed(p)))

\* The candidate displayed at the number typed at prompt p.
Picked(p) == Displayed(p)[DecVal(Typed(p))]

\* C1: in every numeric selector a digit input outside [1, N] (0 included)
\* ends the operation as an invalid selection: nothing is resolved, no
\* confirmation prompt follows and no provider action is issued.
C1_OutOfRangeIsInvalid ==
    /\ TypedOutOfRange("setup_delete_bucket", "?choice") =>
         /\ Local("bucket_name") = None
         /\ ~Prompted("?confirm")
         /\ calls = <<>>
         /\ pc = "done"
    /\ TypedOutOfRange("download_from_blob_container", "?sel") =>
         /\ Local("blob") = None
         /\ ~Prompted("?save_path")
         /\ calls = <<>>
         /\ pc = "done"
    /\ TypedOutOfRange("download_file", "?select_file") =>
         /\ Local("file_name") = None
         /\ ~Prompted("?download_to")
         /\ calls = <<>>
         /\ pc = "done"

\* C2: a pure-digit input k in [1, N] resolves to the id displayed at index
\* k in this run, and that id is the one passed to the action, also when
\* the provider's resources change after the listing was displayed.
C2_InRangeResolvesDisplayed ==
    /\ TypedInRange("delete_storage_account", "?choice") =>
         /\ Local("SA_NAME") = Picked("?choice")
         /\ \A i \in 1..Len(calls) : calls[i].arg = Picked("?choice")
    /\ TypedInRange("download_file", "?select_bucket") =>
         Local("bucket_name") = Picked("?select_bucket")
    /\ TypedInRange("download_file", "?select_file") =>
         /\ Local("file_name") = Picked("?select_file")
         /\ \A i \in 1..Len(calls) : calls[i].arg = Picked("?select_file")
    /\ TypedInRange("setup_delete_bucket", "?choice") =>
         /\ Local("bucket_name") = Picked("?choice")
         /\ \A i \in 1..Len(calls) : calls[i].arg = Picked("?choice")
    /\ TypedInRange("download_from_blob_container", "?sel") =>
         /\ Local("blob") = Picked("?sel")
         /\ \A i \in 1..Len(calls) : calls[i].arg = Picked("?sel")

\* The handler reported that the listing was empty.
NothingFound ==
    \/ Printed("No buckets available to delete")
    \/ Printed("No blobs found")
    \/ Printed("No buckets found")
    \/ Printed("No files found in bucket")
    \/ Printed("No Storage Accounts found")
    \/ Printed("No EC2 instances available")

\* A selection prompt was shown although no candidate was listed above it.
SelectionPrompted ==
    \E p \in {"?choice", "?sel", "?select_bucket", "?select_file", "?select_instance"} :
      Prompted(p) /\ Displayed(p) = <<>>

\* C3: when the listing returns zero candidates the script reports that
\* nothing was found and ends without a selection prompt and without an
\* action.
C3_EmptyListingNoPrompt ==
    NothingFound => ~SelectionPrompted /\ calls = <<>> /\ pc = "done"

\* The three workflows of the evidence script.
EvidenceWorkflows == {"isolate_instance", "create_snapshot_evidence", "delete_snapshot"}

\* The file writes of the running invocation, as indices of `written`.
WritesOfRun == {i \in 1..Len(written) : written[i].run = runs}

\* The report writes among all file writes, as indices of `written`.
ReportWrites == {i \in 1..Len(written) : written[i].path[2] = "evidence-report"}

\* The answer at prompt p, lower-cased, equals token.
Answered(p, token) == Typed(p) # None /\ lower(Typed(p)) = token

\* The answer at prompt p, trimmed and lower-cased, equals token.
AnsweredTrimmed(p, token) == Typed(p) # None /\ lower(strip(Typed(p))) = token

\* C4 as stated: behind each single-confirmation gate (EC2 terminate, S3
\* bucket delete, Azure VM delete, instance isolation) the destructive
\* provider call is issued only if the confirmation input equals the
\* affirmative token under case-insensitive comparison.
C4_CallOnlyIfInputEqualsToken ==
    /\ (script = "remove_instance" /\ Called("terminate_instances"))
         => Answered("?confirm", <<"y", "e", "s">>)
    /\ (script = "delete_bucket" /\ calls # <<>>)
         => Answered("?confirm", <<"y", "e", "s">>)
    /\ (script = "delete_vm" /\ Called("vm delete"))
         => Answered("?confirm", <<"y">>)
    /\ (script = "isolate_instance" /\ Called("modify_instance_attribute"))
         => Answered("?confirm", <<"y">>)

\* C4, amended: the destructive provider call is issued only if the
\* confirmation input equals the affirmative token case-insensitively after
\* surrounding whitespace is removed (EC2 terminate, S3 bucket delete, Azure
\* VM delete) or as typed (instance isolation, which does not trim).
C4_CallOnlyIfTrimmedInputEqualsToken ==
    /\ (script = "remove_instance" /\ Called("terminate_instances"))
         => AnsweredTrimmed("?confirm", <<"y", "e", "s">>)
    /\ (script = "delete_bucket" /\ calls # <<>>)
         => AnsweredTrimmed("?confirm", <<"y", "e", "s">>)
    /\ (script = "delete_vm" /\ Called("vm delete"))
         => AnsweredTrimmed("?confirm", <<"y">>)
    /\ (script = "isolate_instance" /\ Called("modify_instance_attribute"))
         => Answered("?confirm", <<"y">>)

\* An instance was terminated on an answer with trailing white space.
C4_TerminatedOnPaddedYes ==
    /\ script = "remove_instance"
    /\ Called("terminate_instances")
    /\ Typed("?confirm") = <<"y", "e", "s", " ">>

\* C5: snapshot deletion is reached, and its audit report written, only
\* when the first input is exactly DELETE and the second is yes in any
\* case; any other first input ends the operation before the second
\* prompt, with no report written and no delete_snapshot call.
C5_DoubleConfirmation ==
    script = "delete_snapshot" =>
      /\ (Called("delete_snapshot") \/ WritesOfRun # {}) =>
           /\ Typed("?confirm1") = <<"D", "E", "L", "E", "T", "E">>
           /\ Answered("?confirm2", <<"y", "e", "s">>)
      /\ Typed("?confirm1") \notin {None, <<"D", "E", "L", "E", "T", "E">>} =>
           /\ pc = "done"
           /\ ~Prompted("?confirm2")
           /\ ~Prompted("?report_path")
           /\ WritesOfRun = {}
           /\ calls = <<>>

\* A snapshot was deleted after DELETE and an upper-case YES.
C5_SnapshotDeleted ==
    /\ script = "delete_snapshot"
    /\ Called("delete_snapshot")
    /\ WritesOfRun # {}
    /\ Typed("?confirm2") = <<"Y", "E", "S">>

\* The invocation ended at a failed credentials check, a cancelled or
\* invalid selection, or a declined confirmation.
EarlyExit ==
    /\ script \in EvidenceWorkflows
    /\ pc = "done"
    /\ \/ Printed("Error: AWS credentials not configured or invalid")
       \/ Printed("Operation cancelled")
       \/ Printed("Invalid selection")
       \/ Printed("Invalid selection. Please enter a valid number")
       \/ Printed("Operation cancelled - confirmation text did not match")

\* C6: in the isolate, snapshot and snapshot-delete workflows a run that
\* exits early (credentials check failed, selection cancelled or invalid,
\* confirmation declined) has issued no mutating provider call and written
\* no local file.
C6_EarlyExitLeavesNoTrace ==
    EarlyExit => calls = <<>> /\ WritesOfRun = {}

\* Call i of this run succeeded before write w of this run happened.
DoneBefore(i, w) == i <= written[w].at /\ calls[i].ok

\* The reports of this run with the given action, as indices of `written`.
ReportsOf(action) ==
    {w \in WritesOfRun \cap ReportWrites : written[w].content.action = action}

\* The isolation and snapshot-creation reports are written only after
\* their provider calls were issued and all succeeded.
ReportsAfterIsolationAndSnapshots ==
    /\ \A w \in ReportsOf("NETWORK_ISOLATION") :
         \E i \in 1..Len(calls) :
           /\ calls[i].op = "modify_instance_attribute"
           /\ calls[i].arg = written[w].content.subject
           /\ DoneBefore(i, w)
    /\ \A w \in ReportsOf("EBS_SNAPSHOT_CREATION") :
         /\ \E i \in 1..Len(calls) : calls[i].op = "create_snapshot" /\ DoneBefore(i, w)
         /\ \A i \in 1..Len(calls) :
              calls[i].op \in {"create_snapshot", "create_tags"} => DoneBefore(i, w)

\* C7 as stated: every report is written only after the provider call of
\* its action was executed, and no report exists for an action whose
\* provider call was not performed or failed.
C7_ReportOnlyAfterExecuted ==
    /\ ReportsAfterIsolationAndSnapshots
    /\ \A w \in ReportsOf("SNAPSHOT_DELETION") :
         \E i \in 1..Len(calls) :
           /\ calls[i].op = "delete_snapshot"
           /\ calls[i].arg = written[w].content.details.snapshot_id
           /\ DoneBefore(i, w)

\* C7, amended: the isolation and snapshot-creation reports are written
\* only after their provider calls succeeded; the deletion audit report is
\* written after both confirmations and before delete_snapshot is called,
\* which is called only once that report is on disk, so a deletion report
\* exists also when the deletion then fails.
C7_ReportAfterExecutedButBeforeDeletion ==
    /\ ReportsAfterIsolationAndSnapshots
    /\ \A w \in ReportsOf("SNAPSHOT_DELETION") :
         /\ Typed("?confirm1") # None
         /\ Typed("?confirm2") # None
         /\ \A i \in 1..Len(calls) :
              calls[i].op = "delete_snapshot" => written[w].at < i
    /\ \A i \in 1..Len(calls) :
         calls[i].op = "delete_snapshot" =>
           \E w \in ReportsOf("SNAPSHOT_DELETION") :
             /\ written[w].at < i
             /\ written[w].content.details.snapshot_id = calls[i].arg

\* A deletion audit report is on disk and the deletion itself failed.
C7_ReportOfFailedDeletion ==
    /\ ReportsOf("SNAPSHOT_DELETION") # {}
    /\ \E i \in 1..Len(calls) : calls[i].op = "delete_snapshot" /\ ~calls[i].ok

\* describe_instances found the instance remove_instance is to terminate.
Verified ==
    /\ script = "remove_instance"
    /\ "verified" \in DOMAIN locals
    /\ locals.verified

\* C8: remove issues exactly one terminate_instances call, for the given
\* instance, when the instance exists and the answer is yes; none when the
\* existence check fails; and a failed call is not issued again.
C8_TerminateExactlyOnce ==
    script = "remove_instance" =>
      /\ \A i \in 1..Len(calls) :
           /\ calls[i].op = "terminate_instances"
           /\ calls[i].arg = locals.instance_id
      /\ Len(calls) <= 1
      /\ (Verified /\ AnsweredTrimmed("?confirm", <<"y", "e", "s">>)) => Len(calls) = 1
      /\ ~Verified => calls = <<>>

\* terminate_instances failed and was issued once.
C8_FailedAndNotReissued ==
    /\ Verified
    /\ pc = "done"
    /\ Len(calls) = 1
    /\ ~calls[1].ok

\* The first content written to path p.
FirstWritten(p) ==
    written[CHOOSE i \in 1..Len(written) :
              /\ written[i].path = p
              /\ \A j \in 1..(i - 1) : written[j].path # p].content

\* C9: the backup original-sgs-<id>.json is never updated or overwritten:
\* after any sequence of isolate runs on an instance the file still holds
\* the security groups the instance had before its first isolation.
C9_BackupKeepsFirstGroups ==
    \A p \in DOMAIN disk :
      p[2] = "original-sgs" => disk[p] = FirstWritten(p) /\ disk[p] = OriginalSgs

\* C10: the Report Writer never overwrites a report: any two report writes,
\* also two for one subject in one second, leave two distinct files that
\* both exist afterwards.
C10_ReportsNeverOverwritten ==
    \A i \in ReportWrites, j \in ReportWrites :
      i < j =>
        /\ written[i].path # written[j].path
        /\ disk[written[i].path] = written[i].content
        /\ disk[written[j].path] = written[j].content

\* C11: when a report or evidence writer cannot create its output
\* directory it falls back to the current working directory and still
\* writes the artifact there; the run is not aborted.
C11_FallsBackToCurrentDirectory ==
    /\ (script \in EvidenceWorkflows
          /\ Printed("Error creating directory. Using current folder.")
          /\ WritesOfRun \cap ReportWrites # {})
         => \E w \in WritesOfRun \cap ReportWrites : written[w].path[1] = "."
    /\ (script = "s3_bucket_evidence" /\ Printed("Could not create directory"))
         => outcome # "exit1"

\* The SSH readiness loop ran and no probe succeeded.
NoProbeSucceeded ==
    /\ script = "mysql_connect"
    /\ locals.probes > 0
    /\ ~Printed("SSH connection established")

\* C12: the SSH readiness loop of mysql_connect performs at most 60 probes
\* and always terminates; if no probe succeeds the process exits with a
\* non-zero code and in that run no firewall rule is created, no tunnel is
\* started and no mysql connection is attempted.
C12_SshWaitBoundedAndFatal ==
    /\ [](script = "mysql_connect" => locals.probes <= 60)
    /\ (pc = "ssh_wait") ~> (pc # "ssh_wait")
    /\ [](NoProbeSucceeded =>
            /\ pc = "done" => outcome = "exit1"
            /\ ~Called("firewall-rule create")
            /\ ~Called("ssh tunnel")
            /\ ~Called("mysql")
            /\ locals.tunnel = "none")

C12_SshTimedOut ==
    /\ NoProbeSucceeded
    /\ locals.probes = 60
    /\ Printed("Error: SSH connection timeout")
    /\ pc = "done"

\* The process was ended by the signal handler.
Signalled ==
    /\ script = "mysql_connect"
    /\ pc = "done"
    /\ Printed("Received signal")

\* The delete commands for jump server n have been issued in this run.
JumpserverDeleted(n) ==
    \E i \in 1..Len(calls) :
      calls[i].op = "jumpserver delete" /\ calls[i].arg.name = n

\* C13: when SIGINT or SIGTERM is delivered to mysql_connect after a jump
\* server has been recorded or a tunnel started, then by the time the
\* process has exited the jump-server delete commands have been issued, the
\* info file has been removed and the SSH tunnel has been closed.
C13_SignalCleansUpEverything ==
    (Signalled /\ (locals.jumpserver # None \/ locals.tunnel # "none"))
      => /\ JumpserverDeleted(locals.jumpserver)
         /\ jumpserver_info_file \notin DOMAIN disk
         /\ locals.tunnel # "open"

\* This invocation wrote jump server n to the info file.
RecordedHere(n) ==
    \E w \in 1..Len(written) :
      /\ written[w].run = runs
      /\ written[w].path = jumpserver_info_file
      /\ written[w].content.name = n

\* C14: invocations of mysql_connect share no mutable state: the exit-time
\* cleanup of an invocation deletes only a jump server that this invocation
\* recorded, never one recorded by another invocation (which may have
\* crashed), and an invocation that recorded none deletes none.
C14_CleanupDeletesOnlyOwnJumpserver ==
    \A i \in 1..Len(calls) :
      calls[i].op = "jumpserver delete" => RecordedHere(calls[i].arg.name)

\* The scripts that dispatch on a command verb.
Dispatchers ==
    {"ec2_manager", "s3_manager", "ec2_evidence_preservation",
     "blob_storage_manager", "storage_account_manager", "vm_manager"}

\* The process has ended with exit code 0.
ExitedZero == pc = "done" /\ outcome \in {"returned", "exit0"}

\* C15: a command dispatcher given a verb it does not recognize performs
\* no action and exits with code 1.
C15_UnknownVerbExitsOne ==
    (script \in Dispatchers /\ pc = "done" /\ locals.command = <<"x">>)
      => calls = <<>> /\ outcome = "exit1"

\* C17: an invocation whose outcome is the help or usage display (the help
\* verb, or no arguments) exits with code 0.
C17_UsageExitsZero ==
    (/\ script \in Dispatchers
     /\ pc = "done"
     /\ locals.command \in {None, Help}
     /\ Printed("usage"))
      => ExitedZero

\* The provider operation that implements the verb handler h was invoked for.
VerbCall(h) ==
    IF h = "remove_instance" THEN "terminate_instances"
    ELSE IF h = "delete_bucket" THEN "delete_bucket"
    ELSE IF h = "delete_storage_account" THEN "storage account delete"
    ELSE IF h = "delete_vm" THEN "vm delete"
    ELSE "none"

\* The provider call implementing the requested verb was issued and failed.
VerbCallFailed ==
    \E i \in 1..Len(calls) : calls[i].op = VerbCall(script) /\ ~calls[i].ok

\* C16: whenever the provider call that implements the requested verb
\* fails, the process exits with a non-zero exit code.
C16_FailedVerbExitsNonZero ==
    (pc = "done" /\ VerbCallFailed) => ~ExitedZero

\* The upload_file calls issued in this run.
Uploads == {i \in 1..Len(calls) : calls[i].op = "upload_file"}

\* C18: upload_files attempts every file it was given, even after earlier
\* files failed, and at the end success_count + fail_count is the number
\* of files given.
C18_EveryFileAttemptedAndCounted ==
    (script = "upload_files" /\ pc = "done" /\ outcome # "exit1")
      => /\ Cardinality(Uploads) = Len(locals.files)
         /\ locals.success_count + locals.fail_count = Len(locals.files)

\* At prompt p a line was typed that is neither empty, nor purely digits,
\* nor the cancel token q.
LiteralTyped(p) ==
    /\ Typed(p) # None
    /\ ~Falsy(strip(Typed(p)))
    /\ ~isdigit(strip(Typed(p)))
    /\ lower(strip(Typed(p))) # <<"q">>

\* C19: in every interactive selector a non-empty input that is not purely
\* digits is taken as a literal resource id and passed on to the action;
\* the selector itself never rejects it.
C19_NonDigitInputIsLiteralId ==
    /\ (script = "download_file" /\ LiteralTyped("?select_bucket"))
         => /\ ~Printed("Invalid selection")
            /\ locals.bucket_name = strip(Typed("?select_bucket"))
    /\ (script \in {"isolate_instance", "create_snapshot_evidence"}
           /\ LiteralTyped("?select_instance"))
         => /\ ~Printed("Invalid selection. Please enter a valid number")
            /\ Local("instance_id") = strip(Typed("?select_instance"))

\* The interactive selectors of vm_manager, s3_manager and
\* ec2_evidence_preservation: handler, prompt and cancel token (None: the
\* selector has none).
Selectors ==
    {[h |-> "delete_vm", p |-> "?select_vm", token |-> <<"0">>],
     [h |-> "download_file", p |-> "?select_bucket", token |-> None],
     [h |-> "download_file", p |-> "?select_file", token |-> None],
     [h |-> "isolate_instance", p |-> "?select_instance", token |-> <<"q">>],
     [h |-> "create_snapshot_evidence", p |-> "?select_instance", token |-> <<"q">>]}

\* At selector s the user typed nothing, blanks, or the cancel token.
CancelTyped(s) ==
    /\ script = s.h
    /\ Typed(s.p) # None
    /\ Falsy(strip(Typed(s.p))) \/ lower(strip(Typed(s.p))) = s.token

\* C20: in every interactive selector, empty input or the cancel token
\* cancels the operation: the run ends there and no provider action is
\* issued in it.
C20_EmptyOrTokenCancels ==
    \A s \in Selectors : CancelTyped(s) => pc = "done" /\ calls = <<>>

\* C21: when the upload command line holds file paths only, every given
\* path is treated as a file to upload and none is consumed as the bucket
\* name.
C21_FilePathNeverTakenAsBucket ==
    (/\ script = "upload_files"
     /\ pc = "done"
     /\ outcome # "exit1"
     /\ ~locals.bucket_given
     /\ locals.paths # <<>>)
      => /\ locals.files = locals.paths
         /\ locals.bucket_name # <<locals.paths[Len(locals.paths)]>>

\* The direct connection of connect_public_mysql is under way or was made.
DirectPath == script = "mysql_connect" /\ locals.public

\* A jump server is being chosen, was created or was recorded.
JumpPath ==
    /\ script = "mysql_connect"
    /\ \/ Prompted("?use_existing")
       \/ Called("vm create")
       \/ locals.jumpserver # None

\* C22: mysql_connect connects directly only to a server with public
\* access Enabled whose firewall-rule listing succeeds with at least one
\* rule; a Ready server in any other case is reached through a jump
\* server; never both paths in one run; and a server that is not Ready is
\* never connected to.
C22_DirectOnlyWhenPublicWithRules ==
    script = "mysql_connect" =>
      LET a == locals.server
          ready == a.found = "one" /\ a.state = "Ready"
          open  == a.network = "Enabled" /\ a.rules = "some"
      IN  /\ DirectPath => ready /\ open
          /\ JumpPath => ready /\ ~open
          /\ (ready /\ ~open /\ a.rules # "garbled") => JumpPath
          /\ (ready /\ open) => DirectPath
          /\ ~(DirectPath /\ JumpPath)
          /\ ~ready => ~Called("mysql") /\ ~Called("ssh tunnel")
          /\ (a.found = "one" /\ a.state # "Ready") => pc = "done"

C22_ConnectedDirectly == DirectPath /\ Called("mysql")

\* C25: every MySQL firewall rule created by connect_via_jumpserver has had
\* a delete command issued for it by the time the process has exited,
\* whatever the exit path: empty username, empty password, mysql failure,
\* normal return or a signal.
C25_FirewallRuleDeletedBeforeExit ==
    (script = "mysql_connect" /\ pc = "done" /\ locals.rule)
      => Called("firewall-rule delete")

\* C23: whenever isolate_instance reports success, the instance's security
\* groups are exactly the quarantine group, and that group has neither an
\* ingress nor an egress rule, whether it was created in this run or an
\* existing group of that name was reused.
C23_IsolatedMeansNoTraffic ==
    (script = "isolate_instance" /\ Printed("Instance successfully isolated"))
      => /\ inst_sgs[locals.instance_id] = <<quarantine_sg_id>>
         /\ qsg = "closed"

\* The DROP DATABASE commands issued in this run.
Drops == {i \in 1..Len(calls) : calls[i].op = "DROP DATABASE IF EXISTS"}

\* C24: mysql_manager delete asks for confirmation once the database name
\* and the credentials are given; with the answer y (in either case) it
\* issues exactly one DROP DATABASE IF EXISTS for the named database and
\* reports it deleted; with any other answer it issues none.
C24_DropOnlyOnConfirmation ==
    script = "delete_database" =>
      /\ (pc = "done" /\ Typed("?user") # None) => Typed("?confirm") # None
      /\ (pc = "done" /\ Typed("?confirm") # None
            /\ lower(strip(Typed("?confirm"))) = <<"y">>)
           => /\ Cardinality(Drops) = 1
              /\ \A i \in Drops : calls[i].arg = locals.name
              /\ Printed("Database deleted (if it existed)")
      /\ (Typed("?confirm") # None /\ lower(strip(Typed("?confirm"))) # <<"y">>)
           => Drops = {}

\* The backups of security groups written by this run, as indices of
\* `written`.
BackupWrites == {w \in WritesOfRun : written[w].path[2] = "original-sgs"}

\* C26: in isolate_instance modify_instance_attribute is issued only after
\* the original security groups have been written to the backup file; when
\* no backup was written the call is not issued and the security groups of
\* the instances are unchanged.
C26_BackupBeforeModify ==
    script = "isolate_instance" =>
      /\ \A i \in 1..Len(calls) :
           calls[i].op = "modify_instance_attribute"
             => \E w \in BackupWrites :
                  /\ written[w].at < i
                  /\ written[w].path[3] = calls[i].arg
                  /\ written[w].content = OriginalSgs
      /\ BackupWrites = {} => \A i \in Ids : inst_sgs[i] = OriginalSgs

C26_GroupsReplacedAfterBackup ==
    /\ script = "isolate_instance"
    /\ BackupWrites # {}
    /\ \E i \in 1..Len(calls) :
         calls[i].op = "modify_instance_attribute" /\ calls[i].ok

\* The snapshot of volume v is listed in a snapshot report of this run.
SnapshotReported(v) ==
    \E w \in ReportsOf("EBS_SNAPSHOT_CREATION") :
      \E k \in 1..Len(written[w].content.details.snapshots) :
        written[w].content.details.snapshots[k] = v

\* C27: every snapshot created during a create_snapshot_evidence run is
\* recorded in the evidence report of that run, also when create_snapshot
\* or create_tags fails for a later volume.  (A run whose report could not
\* be written to disk is left aside.)
C27_CreatedSnapshotsAreReported ==
    (script \in {"isolate_instance", "create_snapshot_evidence"} /\ pc = "done")
      => \A i \in 1..Len(calls) :
           (calls[i].op = "create_snapshot" /\ calls[i].ok)
             => SnapshotReported(calls[i].arg) \/ Prompted("?report_path")

\* C28: a create_snapshot_evidence run in which every provider call succeeds
\* and the evidence report is written ends in the success outcome without
\* entering the handler that prints an error during snapshot creation.
C28_SuccessfulRunPrintsNoError ==
    ( /\ script \in {"isolate_instance", "create_snapshot_evidence"}
      /\ pc = "done"
      /\ Called("create_snapshot")
      /\ \A i \in 1..Len(calls) : calls[i].ok
      /\ ReportsOf("EBS_SNAPSHOT_CREATION") # {} )
      => ~Printed(Failed("create_snapshot_evidence"))

\* The clean-up commands of delete_vm.
CleanupOps == {Kinds[k] \o " delete" : k \in 1..Len(Kinds)}

\* C29: after a VM is deleted with clean-up accepted, only NICs, public
\* IPs, NSGs, disks and VNETs of the deleted VM are deleted; a resource of
\* another VM of the resource group is never deleted.
C29_CleanupDeletesOnlyOwnResources ==
    script = "delete_vm"
      => \A i \in 1..Len(calls) :
           calls[i].op \in CleanupOps => calls[i].arg.owner = locals.vm_name

\* C30: the temporary directory created by a bucket or container dump is
\* removed on every exit path of the dump, also when a download fails or
\* the zip archive cannot be written.
C30_TempDirRemovedOnEveryExit ==
    (script \in {"dump_bucket", "dump_blob_container"} /\ pc = "done"
       /\ Called("mkdtemp"))
      => Called("rmtree")

====
